---- MODULE Spec2Model ----
(***************************************************************************)
(* Smart Music Map: the rule engine, the structure tree, the session and   *)
(* structure stores, the preference learner and the DTW aligner, as state  *)
(* machines.  JavaScript numbers that are not integers are exact rationals *)
(* [n, d] in lowest terms.                                                 *)
(***************************************************************************)
EXTENDS Integers, Sequences, FiniteSets, TLC

VARIABLES
    \* DTWAligner instance (services/logic/DTWAligner.js)
    symbolicChroma,     \* first argument of the last align call
    acousticChroma,     \* second argument of the last align call
    alignOptions,       \* options of the last align call
    alignmentResult,    \* this.alignmentResult (Null before the first align)
    dtwMeasureToTime,   \* this.measureToTime, entries in insertion order
    dtwTimeToMeasure,   \* this.timeToMeasure, entries in insertion order
    dtwOp,              \* the method of the aligner that ran last
    adjustCount,        \* number of adjustAlignment calls so far
    \* PreferenceManager instance (unnamed/part_007)
    examples,           \* this.examples
    exampleCount,       \* this.exampleCount
    featureWeights,     \* this.featureWeights
    now,                \* Date.now(), in whole minutes since the manager was constructed
    prefOp,             \* the method of the manager that ran last
    prefQuery,          \* its features argument, when that was getRecommendations
    prefReturned,       \* the value the last call returned
    \* RuleEngine and StructureAnalyzer instances (unnamed/part_005, unnamed/part_006)
    parsedScore,        \* the parsed score handed to the analysis
    analysis,           \* what analyzeComplete returned (Null before the call)
    chunkedAnalysis,    \* what analyzeCompleteChunked returned (Null before the call)
    structureTree,      \* the nodes of StructureAnalyzer.structureTree (none before buildHierarchy)
    \* structure store (src/App.vue)
    storeTree,          \* structureTree.value (Null before setStructureTree)
    storeShared,        \* whether structureTree.value is the analyzer's tree object itself
    exportedStructure,  \* what the last exportStructure call returned
    exportedFrom,       \* structureTree.value as it was at that call
    storeOp,            \* the last editing, export or import call on a tree
    editCount,          \* number of editing calls so far
    \* session store (unnamed/part_008) and the session file
    session,            \* the refs of the store that exportSession reads
    sessionCount,       \* number of session ids generated so far
    exportedSession,    \* what the last exportSession call returned
    sessionAtExport,    \* the session as it was at the last export
    sessOp,             \* the last call on the session store
    exportedFile        \* the data of the file exportJSON wrote last

dtwVars == <<symbolicChroma, acousticChroma, alignOptions, alignmentResult,
             dtwMeasureToTime, dtwTimeToMeasure, dtwOp, adjustCount>>

prefVars == <<examples, exampleCount, featureWeights, now, prefOp, prefQuery, prefReturned>>

engVars == <<parsedScore, analysis, chunkedAnalysis, structureTree>>

structVars == <<storeTree, storeShared, exportedStructure, exportedFrom, storeOp, editCount>>

sessVars == <<session, sessionCount, exportedSession, sessionAtExport, sessOp, exportedFile>>

storeVars == <<structVars, sessVars>>

vars == <<dtwVars, prefVars, engVars, storeVars>>

Null == [type |-> "null"]

-----------------------------------------------------------------------------
(* JavaScript number arithmetic on exact rationals *)

Abs(x) == IF x < 0 THEN -x ELSE x

RECURSIVE GCD(_, _)
GCD(a, b) == IF b = 0 THEN a ELSE GCD(b, a % b)

Rat(n, d) ==
    LET g == GCD(Abs(n), d)
    IN  IF n = 0 THEN [n |-> 0, d |-> 1] ELSE [n |-> n \div g, d |-> d \div g]

RInt(i) == [n |-> i, d |-> 1]
RAdd(a, b) == Rat(a.n * b.d + b.n * a.d, a.d * b.d)
RSub(a, b) == Rat(a.n * b.d - b.n * a.d, a.d * b.d)
RMul(a, b) == Rat(a.n * b.n, a.d * b.d)
RDiv(a, b) == IF b.n > 0 THEN Rat(a.n * b.d, a.d * b.n) ELSE Rat(-(a.n * b.d), a.d * (-b.n))
RLe(a, b) == a.n * b.d <= b.n * a.d
RLt(a, b) == a.n * b.d < b.n * a.d
RMax(a, b) == IF RLt(a, b) THEN b ELSE a
RMin(a, b) == IF RLt(b, a) THEN b ELSE a
\* Math.round: the nearest integer, halves upwards
RRound(a) == (2 * a.n + a.d) \div (2 * a.d)
\* Math.floor
RFloor(a) == a.n \div a.d

-----------------------------------------------------------------------------
(* DTWAligner *)

\* Bounds of the aligner's inputs
MaxFrames == 3
MaxAdjust == 1

\* Chroma frames: number vectors whose pairwise distances are whole numbers
ChromaFrames == {<<0, 0>>, <<3, 4>>, <<3, 0>>}

ChromaSeqs == UNION {[1..k -> ChromaFrames] : k \in 0..MaxFrames}

\* options.hopSize / sampleRate / beatsPerMeasure / tempo with their defaults
DefaultOptions == [hopSize |-> 1024, sampleRate |-> 44100, beatsPerMeasure |-> 4, tempo |-> 120]
AlignOptionSet == {DefaultOptions, [DefaultOptions EXCEPT !.hopSize = 44100]}

\* the value of the matrix cells that were never reached
Infinity == 999999

InfPlus(a, b) == IF a = Infinity \/ b = Infinity THEN Infinity ELSE a + b
Min3(a, b, c) == IF a <= b /\ a <= c THEN a ELSE IF b <= c THEN b ELSE c

\* Math.sqrt on the sums of squares the frames above produce
Sqrt(s) == CHOOSE r \in 0..s : r * r = s

MinLen(a, b) == IF Len(a) < Len(b) THEN Len(a) ELSE Len(b)

RECURSIVE SumSqDiff(_, _, _)
SumSqDiff(vec1, vec2, i) ==
    IF i = 0 THEN 0
    ELSE SumSqDiff(vec1, vec2, i - 1) + (vec1[i] - vec2[i]) * (vec1[i] - vec2[i])

euclideanDistance(vec1, vec2) == Sqrt(SumSqDiff(vec1, vec2, MinLen(vec1, vec2)))

\* one row of the cost matrix, cells 0..m held at positions 1..m+1
RECURSIVE FillRow(_, _, _, _, _)
FillRow(prevRow, frame, seq2, j, row) ==
    IF j > Len(seq2) THEN row
    ELSE LET cost == euclideanDistance(frame, seq2[j])
             cell == InfPlus(cost, Min3(prevRow[j + 1], row[j], prevRow[j]))
         IN  FillRow(prevRow, frame, seq2, j + 1, Append(row, cell))

\* the rows 0..n of the cost matrix, held at positions 1..n+1
RECURSIVE FillMatrix(_, _, _, _)
FillMatrix(seq1, seq2, i, rows) ==
    IF i > Len(seq1) THEN rows
    ELSE FillMatrix(seq1, seq2, i + 1,
                    Append(rows, FillRow(rows[i], seq1[i], seq2, 1, <<Infinity>>)))

\* the matrix with a first row of zeros: an alignment that may begin at any
\* frame of the second sequence
CostMatrixOpenStart(seq1, seq2) ==
    FillMatrix(seq1, seq2, 1, <<[j \in 1..(Len(seq2) + 1) |-> 0]>>)

\* dtw[0][0] = 0 and Infinity in the rest of row 0 and of column 0
CostMatrix(seq1, seq2) ==
    FillMatrix(seq1, seq2, 1, <<[j \in 1..(Len(seq2) + 1) |-> IF j = 1 THEN 0 ELSE Infinity]>>)

\* the step of the backtracking loop from cell (i, j): "diag", "left" or "up"
BacktrackLeftFirst(diag, left, up) ==
    IF left <= diag /\ left <= up THEN "left"
    ELSE IF diag < up THEN "diag" ELSE "up"

BacktrackStep(diag, left, up) ==
    IF diag <= left /\ diag <= up THEN "diag"
    ELSE IF left < up THEN "left" ELSE "up"

RECURSIVE backtrack(_, _, _, _)
backtrack(dtw, i, j, path) ==
    IF ~(i > 0 /\ j > 0) THEN path
    ELSE LET step == BacktrackStep(dtw[i][j], dtw[i + 1][j], dtw[i][j + 1])
             p == <<<<i - 1, j - 1>>>> \o path
         IN  IF step = "diag" THEN backtrack(dtw, i - 1, j - 1, p)
             ELSE IF step = "left" THEN backtrack(dtw, i, j - 1, p)
             ELSE backtrack(dtw, i - 1, j, p)

computeDTW(seq1, seq2) ==
    IF Len(seq1) = 0 \/ Len(seq2) = 0 THEN [path |-> <<>>, distance |-> Infinity]
    ELSE LET dtw == CostMatrix(seq1, seq2)
         IN  [path |-> backtrack(dtw, Len(seq1), Len(seq2), <<>>),
              distance |-> dtw[Len(seq1) + 1][Len(seq2) + 1]]

\* Map.has / Map.set if absent, on a map held as its entries in insertion order
MapHas(map, key) == \E e \in 1..Len(map) : map[e].k = key
MapSetIfAbsent(map, key, value) ==
    IF MapHas(map, key) THEN map ELSE Append(map, [k |-> key, v |-> value])
MapSet(map, key, value) ==
    IF MapHas(map, key)
    THEN [e \in 1..Len(map) |-> IF map[e].k = key THEN [k |-> key, v |-> value] ELSE map[e]]
    ELSE Append(map, [k |-> key, v |-> value])

secondsPerFrame(o) == Rat(o.hopSize, o.sampleRate)
framesPerMeasure(o) ==
    RRound(RDiv(RMul(Rat(60, o.tempo), RInt(o.beatsPerMeasure)), secondsPerFrame(o)))
RoundedTime(t) == Rat(RRound(RMul(t, RInt(10))), 10)

RECURSIVE PathToMeasureTime(_, _, _, _)
PathToMeasureTime(path, o, p, map) ==
    IF p > Len(path) THEN map
    ELSE LET measureNumber == (path[p][1] \div framesPerMeasure(o)) + 1
             timestamp == RMul(RInt(path[p][2]), secondsPerFrame(o))
         IN  PathToMeasureTime(path, o, p + 1, MapSetIfAbsent(map, measureNumber, timestamp))

RECURSIVE PathToTimeMeasure(_, _, _, _)
PathToTimeMeasure(path, o, p, map) ==
    IF p > Len(path) THEN map
    ELSE LET measureNumber == (path[p][1] \div framesPerMeasure(o)) + 1
             timestamp == RMul(RInt(path[p][2]), secondsPerFrame(o))
         IN  PathToTimeMeasure(path, o, p + 1, MapSetIfAbsent(map, RoundedTime(timestamp), measureNumber))

\* confidence = max(0, min(1, 1 - distance / (n * m))); 1 - Infinity / x is
\* -Infinity for every x >= 0, which the clamp turns into 0
AlignConfidence(distance, n, m) ==
    IF distance = Infinity THEN RInt(0)
    ELSE RMax(RInt(0), RMin(RInt(1), RSub(RInt(1), Rat(distance, n * m))))

\* the aligner as constructed, with the arguments its caller will pass to align
DTWInit ==
    /\ symbolicChroma \in ChromaSeqs
    /\ acousticChroma \in ChromaSeqs
    /\ alignOptions \in AlignOptionSet
    /\ alignmentResult = Null
    /\ dtwMeasureToTime = <<>>
    /\ dtwTimeToMeasure = <<>>
    /\ dtwOp = "constructor"
    /\ adjustCount = 0
    /\ examples = <<>> /\ exampleCount = 0 /\ featureWeights = Null /\ now = 0
    /\ prefOp = "idle" /\ prefQuery = Null /\ prefReturned = Null
    /\ parsedScore = Null /\ analysis = Null /\ chunkedAnalysis = Null /\ structureTree = <<>>
    /\ storeTree = Null /\ storeShared = FALSE /\ exportedStructure = Null /\ exportedFrom = Null
    /\ storeOp = Null /\ editCount = 0
    /\ session = Null /\ sessionCount = 0 /\ exportedSession = Null /\ sessionAtExport = Null
    /\ sessOp = Null /\ exportedFile = Null

\* the value align returns
align(seq1, seq2, o) ==
    LET r == computeDTW(seq1, seq2)
    IN  [type |-> "alignment", path |-> r.path,
         measureToTime |-> PathToMeasureTime(r.path, o, 1, <<>>),
         timeToMeasure |-> PathToTimeMeasure(r.path, o, 1, <<>>),
         confidence |-> AlignConfidence(r.distance, Len(seq1), Len(seq2)),
         distance |-> r.distance]

Align(seq1, seq2, o) ==
    LET result == align(seq1, seq2, o)
    IN  /\ dtwOp = "constructor"
        /\ UNCHANGED <<symbolicChroma, acousticChroma, alignOptions>>
        /\ dtwMeasureToTime' = result.measureToTime
        /\ dtwTimeToMeasure' = result.timeToMeasure
        /\ alignmentResult' = result
        /\ dtwOp' = "align"
        /\ UNCHANGED <<adjustCount, prefVars, engVars, storeVars>>

AlignAny == Align(symbolicChroma, acousticChroma, alignOptions)

AdjustAlignment(measureNumber, newTimestamp) ==
    /\ adjustCount < MaxAdjust
    /\ adjustCount' = adjustCount + 1
    /\ dtwMeasureToTime' = MapSet(dtwMeasureToTime, measureNumber, newTimestamp)
    /\ dtwTimeToMeasure' = MapSet(dtwTimeToMeasure, RoundedTime(newTimestamp), measureNumber)
    /\ alignmentResult' =
         IF alignmentResult = Null THEN Null
         ELSE [alignmentResult EXCEPT
                 !.measureToTime = MapSet(dtwMeasureToTime, measureNumber, newTimestamp),
                 !.timeToMeasure = MapSet(dtwTimeToMeasure, RoundedTime(newTimestamp), measureNumber),
                 !.confidence = RMax(Rat(1, 2), RSub(@, Rat(1, 20)))]
    /\ dtwOp' = "adjustAlignment"
    /\ UNCHANGED <<symbolicChroma, acousticChroma, alignOptions, prefVars, engVars, storeVars>>

AdjustAny == \E measureNumber \in 1..2, t \in {Rat(1, 4)} : AdjustAlignment(measureNumber, t)

DTWNext == AlignAny \/ AdjustAny

SpecDTW == DTWInit /\ [][DTWNext]_vars

Diagonal(n) == [i \in 1..n |-> <<i - 1, i - 1>>]

\* C10: align on two identical non-empty chroma sequences returns the diagonal
\* path (0,0),(1,1),...,(n-1,n-1) and confidence 1.
C10_IdenticalDiagonal ==
    (dtwOp = "align" /\ symbolicChroma = acousticChroma /\ Len(symbolicChroma) > 0)
        => /\ alignmentResult.path = Diagonal(Len(symbolicChroma))
           /\ alignmentResult.confidence = RInt(1)

C10_Witness ==
    /\ dtwOp = "align"
    /\ symbolicChroma = acousticChroma
    /\ Len(symbolicChroma) = MaxFrames
    /\ \E i, j \in 1..Len(symbolicChroma) : symbolicChroma[i] # symbolicChroma[j]
    /\ alignmentResult.path = Diagonal(MaxFrames)

-----------------------------------------------------------------------------
(* PreferenceManager *)

\* Bounds of the learner's runs
MaxExamples == 8
MaxClock == 1

\* Math.sqrt on the rationals the feature distances below produce
RSqrt(r) == Rat(Sqrt(r.n), Sqrt(r.d))

RECURSIVE RPow(_, _)
RPow(base, e) == IF e = 0 THEN RInt(1) ELSE RMul(base, RPow(base, e - 1))

recencyDecay == Rat(95, 100)
minExamplesForRecommendation == 2
neighborK == 5

InitialFeatureWeights ==
    [structureType |-> RInt(1), confidence |-> Rat(5, 10), duration |-> Rat(8, 10),
     materialVariation |-> Rat(7, 10), cadenceType |-> Rat(9, 10), periodType |-> Rat(8, 10),
     emotionTempo |-> Rat(6, 10), emotionDynamics |-> Rat(6, 10), emotionTension |-> Rat(7, 10)]

\* node features as extractNodeFeatures hands them over; material is its characters
FeatureA ==
    [type |-> "phrase", startMeasure |-> 1, endMeasure |-> 4, material |-> <<"a">>,
     confidence |-> Rat(8, 10), cadence |-> [type |-> "perfect_authentic"]]
FeatureB ==
    [type |-> "phrase", startMeasure |-> 1, endMeasure |-> 16, material |-> <<"a">>,
     confidence |-> Rat(8, 10), cadence |-> [type |-> "half"]]
FeatureSet == {FeatureA, FeatureB}

\* visual schemes; Scheme1 and Scheme1b differ only outside the canonical key
Scheme1 == [id |-> "s1", shapes |-> <<[type |-> "circle", size |-> 2]>>, colors |-> <<"red">>, animation |-> "pulse"]
Scheme1b == [id |-> "s1b", shapes |-> <<[type |-> "circle", size |-> 3]>>, colors |-> <<"red">>, animation |-> "pulse"]
Scheme2 == [id |-> "s2", shapes |-> <<[type |-> "square", size |-> 2]>>, colors |-> <<"blue">>, animation |-> "flash"]
SchemeSet == {Scheme1, Scheme1b, Scheme2}

\* accept, modify, reject
RewardSet == {RInt(1), Rat(1, 2), RInt(-1)}

OneHot(names, value) == [i \in 1..Len(names) |-> IF value = names[i] THEN RInt(1) ELSE RInt(0)]

EmotionValue(map, key) == IF key \in DOMAIN map THEN map[key] ELSE Rat(1, 2)

FeatureField(features, field, default) ==
    IF field \in DOMAIN features THEN features[field] ELSE default

extractFeatureVector(features) ==
    LET conf == FeatureField(features, "confidence", RInt(0))
        duration == Rat(features.endMeasure - features.startMeasure + 1, 16)
        cadence == FeatureField(features, "cadence", Null)
        cadenceType == IF cadence = Null THEN "none" ELSE cadence.type
        periodType == FeatureField(features, "periodType", "none")
    IN  OneHot(<<"motive", "subphrase", "phrase", "period", "theme", "section">>, features.type)
        \o <<IF conf.n = 0 THEN Rat(1, 2) ELSE conf>>
        \o <<RMin(RInt(1), duration)>>
        \o <<IF \E c \in 1..Len(features.material) : features.material[c] = "'" THEN RInt(1) ELSE RInt(0)>>
        \o <<IF Len(features.material) > 1 THEN RInt(1) ELSE RInt(0)>>
        \o OneHot(<<"perfect_authentic", "imperfect_authentic", "half", "deceptive", "none">>, cadenceType)
        \o OneHot(<<"parallel", "contrasting", "sequential", "none">>, periodType)
        \o <<EmotionValue([fast |-> RInt(1), moderate |-> Rat(1, 2), slow |-> RInt(0)],
                          FeatureField(features, "emotionTempo", "undefined"))>>
        \o <<EmotionValue([strong |-> RInt(1), moderate |-> Rat(1, 2), soft |-> RInt(0)],
                          FeatureField(features, "emotionDynamics", "undefined"))>>
        \o <<EmotionValue([tense |-> RInt(1), neutral |-> Rat(1, 2), relaxed |-> RInt(0)],
                          FeatureField(features, "emotionTension", "undefined"))>>

\* the vectors of the features the runs use, extracted once
FeatureVector == [f \in FeatureSet |-> extractFeatureVector(f)]

getWeightVector(w) ==
    <<w.structureType, w.structureType, w.structureType, w.structureType, w.structureType, w.structureType,
      w.confidence, w.duration, w.materialVariation, w.materialVariation,
      w.cadenceType, w.cadenceType, w.cadenceType, w.cadenceType, w.cadenceType,
      w.periodType, w.periodType, w.periodType, w.periodType,
      w.emotionTempo, w.emotionDynamics, w.emotionTension>>

\* sum += weight * diff * diff, a term of 0 where the two entries are equal
RECURSIVE WeightedSum(_, _, _, _)
WeightedSum(vec1, vec2, weights, i) ==
    IF i = 0 THEN RInt(0)
    ELSE IF vec1[i] = vec2[i] THEN WeightedSum(vec1, vec2, weights, i - 1)
    ELSE LET diff == RSub(vec1[i], vec2[i])
             \* weights[i] || 1
             weight == IF weights[i].n = 0 THEN RInt(1) ELSE weights[i]
         IN  RAdd(WeightedSum(vec1, vec2, weights, i - 1), RMul(weight, RMul(diff, diff)))

weightedEuclideanDistance(vec1, vec2, w) ==
    LET weights == getWeightVector(w)
        len == IF MinLen(vec1, vec2) < Len(weights) THEN MinLen(vec1, vec2) ELSE Len(weights)
    IN  RSqrt(WeightedSum(vec1, vec2, weights, len))

\* Math.max(0.1, Math.min(2.0, weight + adjustment))
AdjustWeight(weight, adjustment) == RMax(Rat(1, 10), RMin(RInt(2), RAdd(weight, adjustment)))

\* updateFeatureWeights: no method of the application calls it
updateFeatureWeights(w, features, accepted) ==
    LET adjustment == IF accepted THEN Rat(5, 100) ELSE Rat(-3, 100)
        cadence == FeatureField(features, "cadence", Null)
    IN  [w EXCEPT
           !.structureType = IF "type" \in DOMAIN features THEN AdjustWeight(@, adjustment) ELSE @,
           !.cadenceType = IF cadence # Null THEN AdjustWeight(@, adjustment) ELSE @,
           !.periodType = IF "periodType" \in DOMAIN features THEN AdjustWeight(@, adjustment) ELSE @]

\* combinedScore = (1 / (distance + 0.1)) * reward * recencyDecay ^ ageInMinutes
CombinedScore(example, queryVector, w, currentTime) ==
    LET distance == weightedEuclideanDistance(queryVector, example.features, w)
        recencyWeight == RPow(recencyDecay, currentTime - example.timestamp)
    IN  RMul(RMul(RDiv(RInt(1), RAdd(distance, Rat(1, 10))), example.reward), recencyWeight)

RECURSIVE InsertAsc(_, _)
InsertAsc(sorted, x) ==
    IF sorted = <<>> THEN <<x>>
    ELSE IF RLt(x.score, Head(sorted).score) THEN <<x>> \o sorted
    ELSE <<Head(sorted)>> \o InsertAsc(Tail(sorted), x)

\* Array.prototype.sort with (a, b) => b.score - a.score: descending and stable
RECURSIVE InsertDesc(_, _)
InsertDesc(sorted, x) ==
    IF sorted = <<>> THEN <<x>>
    ELSE IF RLt(Head(sorted).score, x.score) THEN <<x>> \o sorted
    ELSE <<Head(sorted)>> \o InsertDesc(Tail(sorted), x)

RECURSIVE SortDesc(_, _, _)
SortDesc(items, i, sorted) ==
    IF i > Len(items) THEN sorted ELSE SortDesc(items, i + 1, InsertDesc(sorted, items[i]))

\* the key under which neighbours are grouped: shape types, colours, animation
SchemeKey(scheme) ==
    [shapes |-> [i \in 1..Len(scheme.shapes) |-> scheme.shapes[i].type],
     colors |-> scheme.colors, animation |-> scheme.animation]

\* schemeScores: one entry per key in first-seen order, scores summed
RECURSIVE GroupByScheme(_, _, _)
GroupByScheme(neighbors, i, groups) ==
    IF i > Len(neighbors) THEN groups
    ELSE LET key == SchemeKey(neighbors[i].scheme)
             added == IF \E g \in 1..Len(groups) : groups[g].key = key THEN groups
                      ELSE Append(groups, [key |-> key, scheme |-> neighbors[i].scheme,
                                           score |-> RInt(0), count |-> 0])
         IN  GroupByScheme(neighbors, i + 1,
                 [g \in 1..Len(added) |->
                     IF added[g].key = key
                     THEN [added[g] EXCEPT !.score = RAdd(@, neighbors[i].score), !.count = @ + 1]
                     ELSE added[g]])

TakeFirst(seq, count) == SubSeq(seq, 1, IF count < Len(seq) THEN count ELSE Len(seq))

getRecommendations(exs, w, features, count, currentTime) ==
    IF Len(exs) < minExamplesForRecommendation THEN <<>>
    ELSE LET queryVector == FeatureVector[features]
             distances == [i \in 1..Len(exs) |->
                             [index |-> i - 1, scheme |-> exs[i].scheme, reward |-> exs[i].reward,
                              score |-> CombinedScore(exs[i], queryVector, w, currentTime)]]
             positiveExamples == SelectSeq(distances, LAMBDA d : d.reward.n > 0)
             neighbors == TakeFirst(SortDesc(positiveExamples, 1, <<>>), neighborK)
             ranked == TakeFirst(SortDesc(GroupByScheme(neighbors, 1, <<>>), 1, <<>>), count)
         IN  [i \in 1..Len(ranked) |->
                 [scheme |-> ranked[i].scheme, fromPreference |-> TRUE,
                  preferenceScore |-> ranked[i].score, matchCount |-> ranked[i].count]]

PrefInit ==
    /\ examples = <<>>
    /\ exampleCount = 0
    /\ featureWeights = InitialFeatureWeights
    /\ now = 0
    /\ prefOp = "constructor"
    /\ prefQuery = Null
    /\ prefReturned = Null
    /\ symbolicChroma = <<>> /\ acousticChroma = <<>> /\ alignOptions = Null
    /\ alignmentResult = Null /\ dtwMeasureToTime = <<>> /\ dtwTimeToMeasure = <<>>
    /\ dtwOp = "idle" /\ adjustCount = 0
    /\ parsedScore = Null /\ analysis = Null /\ chunkedAnalysis = Null /\ structureTree = <<>>
    /\ storeTree = Null /\ storeShared = FALSE /\ exportedStructure = Null /\ exportedFrom = Null
    /\ storeOp = Null /\ editCount = 0
    /\ session = Null /\ sessionCount = 0 /\ exportedSession = Null /\ sessionAtExport = Null
    /\ sessOp = Null /\ exportedFile = Null

\* what was selected, whenever it was
Selection(example) == [features |-> example.features, scheme |-> example.scheme, reward |-> example.reward]

\* the runs follow one selection against at most one competing selection, each
\* recorded in one stretch
Preferred == [features |-> FeatureVector[FeatureA], scheme |-> Scheme1, reward |-> RInt(1)]

Admitted(exs, sel) ==
    /\ \A i \in 1..Len(exs) : sel # Preferred => Selection(exs[i]) \in {Preferred, sel}
    /\ \A i \in 1..Len(exs), j \in 1..Len(exs) :
          (Selection(exs[i]) # Preferred /\ Selection(exs[j]) # Preferred)
              => Selection(exs[i]) = Selection(exs[j])
    /\ sel \in {Selection(exs[i]) : i \in 1..Len(exs)} => Selection(exs[Len(exs)]) = sel

RecordSelection(features, scheme, reward) ==
    LET example == [features |-> FeatureVector[features], scheme |-> scheme,
                    reward |-> reward, timestamp |-> now]
    IN  /\ Len(examples) < MaxExamples
        /\ Admitted(examples, Selection(example))
        /\ examples' = Append(examples, example)
        /\ exampleCount' = exampleCount + 1
        /\ prefOp' = "recordSelection"
        /\ prefQuery' = Null
        /\ prefReturned' = Null
        /\ UNCHANGED <<featureWeights, now, dtwVars, engVars, storeVars>>

RecordAny == \E f \in FeatureSet, s \in SchemeSet, r \in RewardSet : RecordSelection(f, s, r)

\* a query changes nothing the manager keeps: a query right after a query is left out
GetRecommendations(features) ==
    /\ prefOp # "getRecommendations"
    /\ prefOp' = "getRecommendations"
    /\ prefQuery' = features
    /\ prefReturned' = getRecommendations(examples, featureWeights, features, 5, now)
    /\ UNCHANGED <<examples, exampleCount, featureWeights, now, dtwVars, engVars, storeVars>>

GetRecommendationsAny == \E f \in FeatureSet : GetRecommendations(f)

\* time passes between two calls
Tick ==
    /\ now < MaxClock
    /\ now' = now + 1
    /\ UNCHANGED <<examples, exampleCount, featureWeights, prefOp, prefQuery, prefReturned, dtwVars, engVars, storeVars>>

PrefNext == RecordAny \/ GetRecommendationsAny \/ Tick

SpecPref == PrefInit /\ [][PrefNext]_vars

\* the selections of scheme s with features f and reward +1, by position
SelectionsOf(f, s) ==
    {i \in 1..Len(examples) :
        /\ examples[i].features = FeatureVector[f]
        /\ examples[i].scheme = s
        /\ examples[i].reward = RInt(1)}

FirstIs(s) ==
    /\ prefReturned # <<>>
    /\ SchemeKey(prefReturned[1].scheme) = SchemeKey(s)

\* C8 as stated: when recordSelection(f, s, +1) has been called at least k times
\* with the same f, the first entry of getRecommendations(f) is canonically s.
C8_Stated ==
    prefOp = "getRecommendations" =>
        \A s \in SchemeSet :
            Cardinality(SelectionsOf(prefQuery, s)) >= neighborK => FirstIs(s)

\* the positively rewarded examples of a canonically different scheme
Rivals(s) ==
    {i \in 1..Len(examples) :
        examples[i].reward.n > 0 /\ SchemeKey(examples[i].scheme) # SchemeKey(s)}

\* C8, amended: when recordSelection(f, s, +1) has been called at least k times
\* with the same f, and every positively rewarded example of a canonically
\* different scheme was recorded strictly earlier than k of those selections
\* (rewards being at most +1), the first entry of getRecommendations(f) is
\* canonically s.
C8_FirstWhenRivalsEarlier ==
    prefOp = "getRecommendations" =>
        \A s \in SchemeSet :
            (\A r \in Rivals(s) \cup {0} :
                Cardinality({i \in SelectionsOf(prefQuery, s) :
                                r = 0 \/ examples[r].timestamp < examples[i].timestamp}) >= neighborK)
                => FirstIs(s)

C8_Witness ==
    /\ prefOp = "getRecommendations"
    /\ \E s \in SchemeSet :
          /\ Rivals(s) # {}
          /\ \A r \in Rivals(s) :
                Cardinality({i \in SelectionsOf(prefQuery, s) :
                                examples[r].timestamp < examples[i].timestamp}) >= neighborK
          /\ FirstIs(s)
          /\ Len(prefReturned) = 1

\* C9 as stated: each recorded selection changes the structureType, cadenceType
\* and periodType weights its features bear on by +0.05 when the reward is
\* positive and by -0.03 otherwise, clamped to [0.1, 2.0].
C9_SelectionUpdatesWeights ==
    [][exampleCount' = exampleCount + 1 =>
          \E f \in FeatureSet :
              /\ FeatureVector[f] = examples'[Len(examples')].features
              /\ featureWeights' =
                   updateFeatureWeights(featureWeights, f, examples'[Len(examples')].reward.n > 0)]_vars

-----------------------------------------------------------------------------
(* RuleEngine (unnamed/part_005)                                           *)
(*                                                                         *)
(* A note is [pitch, duration, beat, measureNumber]; its pitch is the      *)
(* string the parser builds, kept as the two groups pitchToMidi matches,   *)
(* [name, octave], or Null for an unpitched note.  A material label is the *)
(* sequence of its characters.  Objects carry no id: generateId is random, *)
(* and a reference to an object is its index in the list that holds it.    *)
(* The description texts are left out.                                     *)

\* this.chunkConfig
maxNotesPerChunk == 500
maxMeasuresPerChunk == 32
overlapMeasures == 4

\* the keys of this.pitchClasses, in the order the constructor lists them
pitchNames == <<"C", "C#", "Db", "D", "D#", "Eb", "E", "Fb", "E#", "F", "F#",
                "Gb", "G", "G#", "Ab", "A", "A#", "Bb", "B", "Cb", "B#">>

pitchClasses ==
    LET values == <<0, 1, 1, 2, 3, 3, 4, 4, 5, 5, 6, 6, 7, 8, 8, 9, 10, 10, 11, 11, 0>>
    IN  [name \in {pitchNames[i] : i \in 1..Len(pitchNames)} |->
            values[CHOOSE i \in 1..Len(pitchNames) : pitchNames[i] = name]]

\* String.fromCharCode(97 + i) and String.fromCharCode(65 + i), for i below 26
SmallLetters == <<"a", "b", "c", "d", "e", "f", "g", "h", "i", "j", "k", "l", "m",
                  "n", "o", "p", "q", "r", "s", "t", "u", "v", "w", "x", "y", "z">>
CapitalLetters == <<"A", "B", "C", "D", "E", "F", "G", "H", "I", "J", "K", "L", "M",
                    "N", "O", "P", "Q", "R", "S", "T", "U", "V", "W", "X", "Y", "Z">>

Least(S) == CHOOSE x \in S : \A y \in S : x <= y

\* Object.keys(groups).map(Number).sort((a, b) => a - b)
RECURSIVE SortedSeq(_)
SortedSeq(S) == IF S = {} THEN <<>> ELSE <<Least(S)>> \o SortedSeq(S \ {Least(S)})

\* Array.prototype.slice(from, to) with 0 <= from
Slice(arr, from, to) == SubSeq(arr, from + 1, IF to < Len(arr) THEN to ELSE Len(arr))

\* Array.prototype.flatMap over a list of lists
RECURSIVE Flatten(_)
Flatten(lists) == IF lists = <<>> THEN <<>> ELSE Head(lists) \o Flatten(Tail(lists))

pitchToMidi(pitch) ==
    IF pitch = Null THEN 60 ELSE pitchClasses[pitch.name] + (pitch.octave + 1) * 12

getTonicFromKey(keySignature) ==
    LET fifths == keySignature.fifths
        majorKeys == <<"C", "G", "D", "A", "E", "B", "F#", "C#">>
        majorKeysFlat == <<"C", "F", "Bb", "Eb", "Ab", "Db", "Gb", "Cb">>
        AtMost7(x) == IF x < 7 THEN x ELSE 7
        tonic == IF fifths >= 0 THEN majorKeys[AtMost7(fifths) + 1]
                 ELSE majorKeysFlat[AtMost7(-fifths) + 1]
        minorPc == (pitchClasses[tonic] + 9) % 12
        \* every key of pitchClasses has at most two characters
        first == Least({i \in 1..Len(pitchNames) : pitchClasses[pitchNames[i]] = minorPc})
    IN  IF keySignature.mode = "minor" THEN pitchNames[first] ELSE tonic

\* pitch.replace(/[0-9]/g, '') leaves the sign of a negative octave in the
\* name, which is then no key of pitchClasses
getScaleDegree(pitch, tonic) ==
    IF pitch = Null THEN -1
    ELSE IF pitch.octave < 0 THEN -1
    ELSE LET interval == (pitchClasses[pitch.name] - pitchClasses[tonic] + 12) % 12
         IN  CASE interval = 0 -> 0 [] interval = 2 -> 1 [] interval = 4 -> 2
               [] interval = 5 -> 3 [] interval = 7 -> 4 [] interval = 9 -> 5
               [] interval = 11 -> 6 [] OTHER -> -1

\* note.measureNumber || 1
MeasureOf(note) == IF note.measureNumber = 0 THEN 1 ELSE note.measureNumber

groupNotesByMeasure(notes) ==
    [measure \in {MeasureOf(notes[i]) : i \in 1..Len(notes)} |->
        SelectSeq(notes, LAMBDA note : MeasureOf(note) = measure)]

groupNotesByBeat(notes, beatsPerMeasure) ==
    [beat \in 0..(beatsPerMeasure - 1) |->
        SelectSeq(notes, LAMBDA note : note.beat % beatsPerMeasure = beat)]

\* reduce with a strict comparison: the first of the extreme notes
getLowestNote(notes) ==
    IF notes = <<>> THEN Null
    ELSE notes[Least({i \in 1..Len(notes) :
                 \A j \in 1..Len(notes) : pitchToMidi(notes[i].pitch) <= pitchToMidi(notes[j].pitch)})]

getHighestNote(notes) ==
    IF notes = <<>> THEN Null
    ELSE notes[Least({i \in 1..Len(notes) :
                 \A j \in 1..Len(notes) : pitchToMidi(notes[i].pitch) >= pitchToMidi(notes[j].pitch)})]

getNotesInRange(notes, startMeasure, endMeasure) ==
    SelectSeq(notes, LAMBDA n : n.measureNumber >= startMeasure /\ n.measureNumber <= endMeasure)

assignMaterialLabel(index) ==
    LET baseLabels == <<"a", "b", "c", "d", "e", "f", "g", "h">>
    IN  <<baseLabels[(index % 8) + 1]>> \o [i \in 1..(index \div 8) |-> "'"]

extractIntervalPattern(notes) ==
    IF Len(notes) < 2 THEN <<>>
    ELSE [i \in 1..(Len(notes) - 1) |-> pitchToMidi(notes[i + 1].pitch) - pitchToMidi(notes[i].pitch)]

\* n.duration || 1
extractRhythmPattern(notes) ==
    [i \in 1..Len(notes) |-> IF notes[i].duration = 0 THEN 1 ELSE notes[i].duration]

extractContour(notes) ==
    IF Len(notes) < 2 THEN "static"
    ELSE LET diff == pitchToMidi(notes[Len(notes)].pitch) - pitchToMidi(notes[1].pitch)
         IN  IF diff > 2 THEN "ascending" ELSE IF diff < -2 THEN "descending" ELSE "static"

compareArrays(arr1, arr2) ==
    IF Len(arr1) = 0 \/ Len(arr2) = 0 THEN RInt(0)
    ELSE LET minLen == IF Len(arr1) < Len(arr2) THEN Len(arr1) ELSE Len(arr2)
             maxLen == IF Len(arr1) < Len(arr2) THEN Len(arr2) ELSE Len(arr1)
             matches == Cardinality({i \in 1..minLen : Abs(arr1[i] - arr2[i]) <= 1})
             lengthPenalty == RSub(RInt(1), Rat(maxLen - minLen, maxLen))
         IN  RMul(Rat(matches, minLen), lengthPenalty)

RECURSIVE SumMidi(_)
SumMidi(notes) == IF notes = <<>> THEN 0 ELSE pitchToMidi(Head(notes).pitch) + SumMidi(Tail(notes))

detectTransposition(notes1, notes2) ==
    IF Len(notes1) = 0 \/ Len(notes2) = 0 THEN 0
    ELSE RRound(RSub(Rat(SumMidi(notes2), Len(notes2)), Rat(SumMidi(notes1), Len(notes1))))

isFragmentation(motive1, motive2) ==
    LET len1 == Len(motive1.notes)
        len2 == Len(motive2.notes)
    IN  IF 10 * len2 >= 8 * len1 THEN FALSE
        ELSE RLt(Rat(7, 10), compareArrays(Slice(motive1.intervalPattern, 0, len2 - 1),
                                           motive2.intervalPattern))

\* with no intervals matches / length is NaN, and NaN > 0.8 is false
isInversion(intervals1, intervals2) ==
    IF Len(intervals1) # Len(intervals2) \/ Len(intervals1) = 0 THEN FALSE
    ELSE LET matches == Cardinality({i \in 1..Len(intervals1) :
                                        Abs(intervals1[i] + intervals2[i]) <= 1})
         IN  RLt(Rat(8, 10), Rat(matches, Len(intervals1)))

calculateMelodicSimilarity(notes1, notes2) ==
    IF Len(notes1) = 0 \/ Len(notes2) = 0 THEN RInt(0)
    ELSE LET intervalSim == compareArrays(extractIntervalPattern(notes1), extractIntervalPattern(notes2))
             rhythmSim == compareArrays(extractRhythmPattern(notes1), extractRhythmPattern(notes2))
         IN  RAdd(RMul(intervalSim, Rat(6, 10)), RMul(rhythmSim, Rat(4, 10)))

analyzeMotiveRelationship(motive1, motive2) ==
    LET intervalSim == compareArrays(motive1.intervalPattern, motive2.intervalPattern)
        rhythmSim == compareArrays(motive1.rhythmPattern, motive2.rhythmPattern)
        transposition == detectTransposition(motive1.notes, motive2.notes)
    IN  IF RLt(Rat(9, 10), intervalSim) /\ RLt(Rat(9, 10), rhythmSim)
        THEN [type |-> "repetition", confidence |-> Rat(95, 100)]
        ELSE IF RLt(Rat(8, 10), intervalSim) /\ RLt(Rat(7, 10), rhythmSim) /\ transposition # 0
        THEN [type |-> "sequence", confidence |-> Rat(85, 100), transposition |-> transposition]
        ELSE IF RLt(Rat(8, 10), rhythmSim) /\ RLt(intervalSim, Rat(5, 10))
        THEN [type |-> "variation", confidence |-> Rat(7, 10)]
        ELSE IF isFragmentation(motive1, motive2)
        THEN [type |-> "fragmentation", confidence |-> Rat(75, 100)]
        ELSE IF isInversion(motive1.intervalPattern, motive2.intervalPattern)
        THEN [type |-> "inversion", confidence |-> Rat(8, 10)]
        ELSE [type |-> "new", confidence |-> Rat(6, 10)]

\* the motives of one measure: the loop over its beats, then the motive left
\* at the end of the measure
RECURSIVE MeasureMotives(_, _, _, _, _, _)
MeasureMotives(beatGroups, beatsPerMeasure, measureNum, beat, currentMotive, motiveStartBeat) ==
    LET motive == [index |-> 0, notes |-> currentMotive, measureNumber |-> measureNum,
                   startBeat |-> motiveStartBeat,
                   intervalPattern |-> extractIntervalPattern(currentMotive),
                   rhythmPattern |-> extractRhythmPattern(currentMotive),
                   contour |-> extractContour(currentMotive), relationship |-> Null]
        saved == IF Len(currentMotive) >= 2 THEN <<motive>> ELSE <<>>
        isStrongBeat == beat = 0 \/ (beatsPerMeasure = 4 /\ beat = 2)
        restart == isStrongBeat /\ Len(currentMotive) > 0
    IN  IF beat >= beatsPerMeasure THEN saved
        ELSE (IF restart THEN saved ELSE <<>>)
             \o MeasureMotives(beatGroups, beatsPerMeasure, measureNum, beat + 1,
                               (IF restart THEN <<>> ELSE currentMotive) \o beatGroups[beat],
                               IF restart THEN beat ELSE motiveStartBeat)

\* detectMotives with labelMotiveRelationships: each motive after the first is
\* related to the one before it
detectMotives(notes, timeSignature) ==
    IF Len(notes) < 2 THEN <<>>
    ELSE LET measureGroups == groupNotesByMeasure(notes)
             measureNumbers == SortedSeq(DOMAIN measureGroups)
             found == Flatten([i \in 1..Len(measureNumbers) |->
                          MeasureMotives(groupNotesByBeat(measureGroups[measureNumbers[i]], timeSignature.beats),
                                         timeSignature.beats, measureNumbers[i], 0, <<>>, 0)])
         IN  [i \in 1..Len(found) |->
                 [found[i] EXCEPT !.index = i - 1,
                                  !.relationship = IF i = 1 THEN Null
                                                   ELSE analyzeMotiveRelationship(found[i - 1], found[i])]]

\* no note carries isRest: the parser leaves the rests out
hasRhythmicBreak(notes) ==
    IF Len(notes) < 4 THEN FALSE
    ELSE \E i \in 2..(Len(notes) - 1) : notes[i].duration >= 2

getMotivesInRange(motives, measureNum, startBeat, endBeat) ==
    SelectSeq(motives, LAMBDA m : m.measureNumber = measureNum /\ m.startBeat >= startBeat
                                    /\ m.startBeat < endBeat)

\* the one or two sub-phrases of a measure; their indices and first labels are
\* set by the caller, and similarTo names a sub-phrase by its index
MeasureSubPhrases(measureNotes, measureNum, motives) ==
    LET SubPhrase(notes, startBeat, endBeat) ==
            [index |-> 0, startMeasure |-> measureNum, endMeasure |-> measureNum,
             startBeat |-> startBeat, endBeat |-> endBeat, notes |-> notes,
             motives |-> getMotivesInRange(motives, measureNum, startBeat, endBeat),
             material |-> <<>>, similarTo |-> Null, similarity |-> Null]
        midPoint == Len(measureNotes) \div 2
    IN  IF hasRhythmicBreak(measureNotes) /\ Len(measureNotes) > 4
        THEN <<SubPhrase(Slice(measureNotes, 0, midPoint), 0, 2),
               SubPhrase(Slice(measureNotes, midPoint, Len(measureNotes)), 2, 4)>>
        ELSE <<SubPhrase(measureNotes, 0, 4)>>

\* the loop of analyzeSubPhraseMaterials from sub-phrase i on; done holds the
\* sub-phrases already labelled.  calculateSubPhraseSimilarity computes what
\* calculateMelodicSimilarity computes on the notes of the two sub-phrases.
RECURSIVE analyzeSubPhraseMaterials(_, _, _, _)
analyzeSubPhraseMaterials(subPhrases, i, done, materialIndex) ==
    IF i > Len(subPhrases) THEN done
    ELSE LET sp == subPhrases[i]
             similarity == [j \in 1..(i - 1) |-> calculateMelodicSimilarity(sp.notes, done[j].notes)]
             similar == {j \in 1..(i - 1) : RLt(Rat(5, 10), similarity[j])}
             j == Least(similar)
         IN  IF similar # {}
             THEN analyzeSubPhraseMaterials(subPhrases, i + 1,
                      Append(done, [sp EXCEPT
                          !.material = done[j].material
                                         \o (IF RLt(Rat(8, 10), similarity[j]) THEN <<"'">> ELSE <<"v">>),
                          !.similarTo = [index |-> done[j].index],
                          !.similarity = similarity[j]]),
                      materialIndex)
             ELSE analyzeSubPhraseMaterials(subPhrases, i + 1,
                      Append(done, [sp EXCEPT !.material = <<SmallLetters[materialIndex + 1]>>]),
                      IF materialIndex + 1 < 25 THEN materialIndex + 1 ELSE 25)

detectSubPhrases(notes, motives) ==
    LET measureGroups == groupNotesByMeasure(notes)
        measureNumbers == SortedSeq(DOMAIN measureGroups)
        found == Flatten([i \in 1..Len(measureNumbers) |->
                     MeasureSubPhrases(measureGroups[measureNumbers[i]], measureNumbers[i], motives)])
    IN  analyzeSubPhraseMaterials([i \in 1..Len(found) |->
                                      [found[i] EXCEPT !.index = i - 1,
                                                       !.material = assignMaterialLabel(i - 1)]],
                                  1, <<>>, 0)

classifyCadence(prevDegree, currDegree, melodyDegree, measureNumber, mode) ==
    LET Cadence(type, strength, confidence) ==
            [measureNumber |-> measureNumber, beat |-> 0, type |-> type,
             strength |-> strength, confidence |-> confidence]
    IN  IF prevDegree = 4 /\ currDegree = 0
        THEN (IF melodyDegree = 0 THEN Cadence("perfect_authentic", "strong", Rat(95, 100))
              ELSE Cadence("imperfect_authentic", "moderate", Rat(8, 10)))
        ELSE IF (prevDegree = 4 \/ prevDegree = 6) /\ currDegree = 0 /\ melodyDegree # 0
        THEN Cadence("imperfect_authentic", "moderate", Rat(75, 100))
        ELSE IF currDegree = 4 THEN Cadence("half", "weak", Rat(8, 10))
        ELSE IF prevDegree = 4 /\ currDegree = 5 THEN Cadence("deceptive", "moderate", Rat(85, 100))
        ELSE IF prevDegree = 3 /\ currDegree = 0 THEN Cadence("plagal", "moderate", Rat(75, 100))
        ELSE IF mode = "minor" /\ prevDegree = 3 /\ currDegree = 4
        THEN Cadence("phrygian", "weak", Rat(7, 10))
        ELSE Null

\* the cadences taken measure by measure in the order in which the measures
\* first appear among the notes, the measure numbers left unsorted
detectCadencesAsNoted(notes, keySignature) ==
    LET tonicPitch == getTonicFromKey(keySignature)
        measureGroups == groupNotesByMeasure(notes)
        firsts == SortedSeq({i \in 1..Len(notes) :
                      \A j \in 1..(i - 1) : MeasureOf(notes[j]) # MeasureOf(notes[i])})
        measureNumbers == [k \in 1..Len(firsts) |-> MeasureOf(notes[firsts[k]])]
        CadenceAt(i) ==
            LET prevBass == getLowestNote(measureGroups[measureNumbers[i - 1]])
                currBass == getLowestNote(measureGroups[measureNumbers[i]])
                currMelody == getHighestNote(measureGroups[measureNumbers[i]])
            IN  classifyCadence(getScaleDegree(prevBass.pitch, tonicPitch),
                                getScaleDegree(currBass.pitch, tonicPitch),
                                getScaleDegree(currMelody.pitch, tonicPitch),
                                measureNumbers[i], keySignature.mode)
    IN  IF Len(measureNumbers) < 2 THEN <<>>
        ELSE SelectSeq([i \in 1..(Len(measureNumbers) - 1) |-> CadenceAt(i + 1)], LAMBDA c : c # Null)

detectCadences(notes, keySignature) ==
    LET tonicPitch == getTonicFromKey(keySignature)
        measureGroups == groupNotesByMeasure(notes)
        measureNumbers == SortedSeq(DOMAIN measureGroups)
        CadenceAt(i) ==
            LET prevBass == getLowestNote(measureGroups[measureNumbers[i - 1]])
                currBass == getLowestNote(measureGroups[measureNumbers[i]])
                currMelody == getHighestNote(measureGroups[measureNumbers[i]])
            IN  classifyCadence(getScaleDegree(prevBass.pitch, tonicPitch),
                                getScaleDegree(currBass.pitch, tonicPitch),
                                getScaleDegree(currMelody.pitch, tonicPitch),
                                measureNumbers[i], keySignature.mode)
    IN  IF Len(measureNumbers) < 2 THEN <<>>
        ELSE SelectSeq([i \in 1..(Len(measureNumbers) - 1) |-> CadenceAt(i + 1)], LAMBDA c : c # Null)

getCadenceStrength(cadence) ==
    IF cadence = Null THEN RInt(0)
    ELSE CASE cadence.type = "perfect_authentic" -> RInt(1)
           [] cadence.type = "imperfect_authentic" -> Rat(8, 10)
           [] cadence.type = "plagal" -> Rat(7, 10)
           [] cadence.type = "deceptive" -> Rat(5, 10)
           [] cadence.type = "half" -> Rat(4, 10)
           [] cadence.type = "phrygian" -> Rat(3, 10)
           [] OTHER -> Rat(3, 10)

\* ConfidenceThresholds
ConfidenceThresholds == [HIGH |-> Rat(8, 10), MEDIUM |-> Rat(6, 10), LOW |-> Rat(4, 10),
                         VERY_LOW |-> Rat(2, 10)]

VisualStyle(lineStyle, opacity, borderWidth, uncertaintyLevel) ==
    [lineStyle |-> lineStyle, opacity |-> opacity, borderWidth |-> borderWidth,
     uncertaintyLevel |-> uncertaintyLevel]

\* the style whose bands are cut at the thresholds one step too low: MEDIUM,
\* LOW and VERY_LOW, the opacities of the two dashed bands exchanged
getConfidenceVisualStyleShifted(confidence) ==
    IF RLe(ConfidenceThresholds.MEDIUM, confidence) THEN VisualStyle("solid", RInt(1), 2, "low")
    ELSE IF RLe(ConfidenceThresholds.LOW, confidence)
    THEN VisualStyle("solid", Rat(5, 10), 2, "high")
    ELSE IF RLe(ConfidenceThresholds.VERY_LOW, confidence)
    THEN VisualStyle("dashed", Rat(7, 10), 1, "medium")
    ELSE VisualStyle("dotted", Rat(85, 100), 1, "very_high")

getConfidenceVisualStyle(confidence) ==
    IF RLe(ConfidenceThresholds.HIGH, confidence) THEN VisualStyle("solid", RInt(1), 2, "low")
    ELSE IF RLe(ConfidenceThresholds.MEDIUM, confidence)
    THEN VisualStyle("solid", Rat(85, 100), 2, "medium")
    ELSE IF RLe(ConfidenceThresholds.LOW, confidence)
    THEN VisualStyle("dashed", Rat(7, 10), 1, "high")
    ELSE VisualStyle("dotted", Rat(5, 10), 1, "very_high")

\* [...cadences].sort((a, b) => a.measureNumber - b.measureNumber): stable
RECURSIVE SortByMeasure(_)
SortByMeasure(cadences) ==
    IF cadences = <<>> THEN <<>>
    ELSE LET first == Least({i \in 1..Len(cadences) : \A j \in 1..Len(cadences) :
                                 cadences[i].measureNumber <= cadences[j].measureNumber})
         IN  <<cadences[first]>>
             \o SortByMeasure(SubSeq(cadences, 1, first - 1) \o SubSeq(cadences, first + 1, Len(cadences)))

\* the phrase object detectPhrases pushes; the trailing phrase takes every
\* sub-phrase from its first measure on, the others those inside their range
Phrase(notes, subPhrases, index, startMeasure, endMeasure, cadence, trailing) ==
    [index |-> index, startMeasure |-> startMeasure, endMeasure |-> endMeasure,
     length |-> endMeasure - startMeasure + 1, cadence |-> cadence,
     notes |-> getNotesInRange(notes, startMeasure, endMeasure),
     subPhrases |-> SelectSeq(subPhrases, LAMBDA sp :
                        sp.startMeasure >= startMeasure /\ (trailing \/ sp.endMeasure <= endMeasure)),
     material |-> assignMaterialLabel(index),
     closure |-> IF RLt(Rat(7, 10), getCadenceStrength(cadence)) THEN "closed" ELSE "open",
     relationship |-> "undefined", headSimilarity |-> Null]

\* the loop of detectPhrases over the sorted cadences, from cadence k on
RECURSIVE PhrasesByCadence(_, _, _, _, _, _, _)
PhrasesByCadence(notes, subPhrases, sortedCadences, k, phraseStart, phraseIndex, phrases) ==
    IF k > Len(sortedCadences)
    THEN [phrases |-> phrases, phraseStart |-> phraseStart, phraseIndex |-> phraseIndex]
    ELSE LET cadence == sortedCadences[k]
             phraseEnd == cadence.measureNumber
             phraseLength == phraseEnd - phraseStart + 1
             midPoint == phraseStart + (phraseLength \div 2)
         IN  IF phraseLength >= 2 /\ phraseLength <= 12
             THEN PhrasesByCadence(notes, subPhrases, sortedCadences, k + 1, phraseEnd + 1, phraseIndex + 1,
                      Append(phrases, Phrase(notes, subPhrases, phraseIndex, phraseStart, phraseEnd,
                                             cadence, FALSE)))
             ELSE IF phraseLength > 12
             THEN PhrasesByCadence(notes, subPhrases, sortedCadences, k + 1, phraseEnd + 1, phraseIndex + 2,
                      phrases \o <<Phrase(notes, subPhrases, phraseIndex, phraseStart, midPoint, Null, FALSE),
                                   Phrase(notes, subPhrases, phraseIndex + 1, midPoint + 1, phraseEnd,
                                          cadence, FALSE)>>)
             ELSE PhrasesByCadence(notes, subPhrases, sortedCadences, k + 1, phraseStart, phraseIndex, phrases)

comparePhraseHeads(phrase1, phrase2) ==
    LET half1 == (Len(phrase1.notes) + 1) \div 2
        half2 == (Len(phrase2.notes) + 1) \div 2
        least == IF half1 < half2 THEN half1 ELSE half2
        headLength == IF least < 8 THEN least ELSE 8
    IN  calculateMelodicSimilarity(Slice(phrase1.notes, 0, headLength), Slice(phrase2.notes, 0, headLength))

\* slice(-tailLength) is the whole list when tailLength is 0
comparePhraseTails(phrase1, phrase2) ==
    LET half1 == (Len(phrase1.notes) + 1) \div 2
        half2 == (Len(phrase2.notes) + 1) \div 2
        least == IF half1 < half2 THEN half1 ELSE half2
        tailLength == IF least < 8 THEN least ELSE 8
        TailOf(notes) == IF tailLength = 0 THEN notes
                         ELSE SubSeq(notes, Len(notes) - tailLength + 1, Len(notes))
    IN  calculateMelodicSimilarity(TailOf(phrase1.notes), TailOf(phrase2.notes))

\* the loop of analyzePhraseMaterials from phrase i on; done holds the phrases
\* already labelled
RECURSIVE analyzePhraseMaterials(_, _, _)
analyzePhraseMaterials(phrases, i, done) ==
    IF i > Len(phrases) THEN done
    ELSE IF i = 1 THEN analyzePhraseMaterials(phrases, 2, <<phrases[1]>>)
    ELSE LET curr == phrases[i]
             prev == done[i - 1]
             headSimilarity == comparePhraseHeads(prev, curr)
             tailSimilarity == comparePhraseTails(prev, curr)
             labelled ==
                 IF RLt(Rat(7, 10), headSimilarity) /\ RLt(tailSimilarity, Rat(5, 10))
                 THEN [curr EXCEPT !.material = prev.material \o <<"'">>, !.relationship = "parallel",
                                   !.headSimilarity = headSimilarity]
                 ELSE IF RLt(Rat(7, 10), headSimilarity) /\ RLt(Rat(7, 10), tailSimilarity)
                 THEN [curr EXCEPT !.material = prev.material \o <<"r">>, !.relationship = "repetition"]
                 ELSE IF RLt(headSimilarity, Rat(3, 10))
                 THEN [curr EXCEPT !.relationship = "contrasting"]
                 ELSE [curr EXCEPT !.relationship = "development"]
         IN  analyzePhraseMaterials(phrases, i + 1, Append(done, labelled))

detectPhrases(notes, cadences, subPhrases) ==
    IF notes = <<>> THEN <<>>
    ELSE LET measureNumbers == SortedSeq(DOMAIN groupNotesByMeasure(notes))
             closed == PhrasesByCadence(notes, subPhrases, SortByMeasure(cadences), 1,
                                        measureNumbers[1], 0, <<>>)
             lastMeasure == measureNumbers[Len(measureNumbers)]
             remainingLength == lastMeasure - closed.phraseStart + 1
             phrases == IF closed.phraseStart <= lastMeasure /\ remainingLength >= 2
                        THEN Append(closed.phrases,
                                    Phrase(notes, subPhrases, closed.phraseIndex, closed.phraseStart,
                                           lastMeasure, Null, TRUE))
                        ELSE closed.phrases
         IN  analyzePhraseMaterials(phrases, 1, <<>>)

isNewSection(currentPhrase, nextPhrase) ==
    /\ RLe(Rat(8, 10), getCadenceStrength(currentPhrase.cadence))
    /\ RLt(comparePhraseHeads(currentPhrase, nextPhrase), Rat(3, 10))

isSequentialRelation(phrase1, phrase2) ==
    IF Len(phrase1.notes) = 0 \/ Len(phrase2.notes) = 0 THEN FALSE
    ELSE /\ RLt(Rat(7, 10), compareArrays(extractIntervalPattern(Slice(phrase1.notes, 0, 8)),
                                          extractIntervalPattern(Slice(phrase2.notes, 0, 8))))
         /\ Abs(detectTransposition(phrase1.notes, phrase2.notes)) > 0

\* headSimilarity is set on a phrase only together with the parallel relationship
classifyPeriodType(phrases) ==
    CASE Len(phrases) = 1 -> "parallel"
      [] Len(phrases) = 2 -> IF phrases[2].relationship = "parallel" THEN "parallel"
                             ELSE IF isSequentialRelation(phrases[1], phrases[2]) THEN "sequential"
                             ELSE "contrasting"
      [] Len(phrases) = 3 -> "three_phrase"
      [] Len(phrases) = 4 -> "four_phrase"
      [] OTHER -> "compound"

\* (length & (length - 1)) === 0 holds for the powers of two
classifyProportion(phrases) ==
    IF Len(phrases) < 2 THEN "non_square"
    ELSE IF \E i \in 1..Len(phrases) : phrases[i].length # phrases[1].length THEN "non_square"
    ELSE IF phrases[1].length >= 4 /\ \E e \in 2..30 : phrases[1].length = 2 ^ e THEN "square"
    ELSE "regular"

\* materials.join('+')
RECURSIVE JoinPlus(_)
JoinPlus(materials) ==
    IF Len(materials) <= 1 THEN materials
    ELSE <<Head(materials), "+">> \o JoinPlus(Tail(materials))

derivePeriodMaterial(phrases) ==
    LET materials == [i \in 1..Len(phrases) |-> Head(phrases[i].material)]
    IN  IF Len(phrases) = 0 THEN <<"a">>
        ELSE IF \A i \in 1..Len(materials) : materials[i] = materials[1] THEN <<materials[1]>>
        ELSE JoinPlus(materials)

createPeriod(phrases, index) ==
    LET lastCadence == phrases[Len(phrases)].cadence
    IN  [index |-> index, startMeasure |-> phrases[1].startMeasure,
         endMeasure |-> phrases[Len(phrases)].endMeasure,
         length |-> phrases[Len(phrases)].endMeasure - phrases[1].startMeasure + 1,
         phrases |-> phrases, phraseCount |-> Len(phrases),
         type |-> classifyPeriodType(phrases), proportion |-> classifyProportion(phrases),
         closure |-> IF RLe(Rat(7, 10), getCadenceStrength(lastCadence)) THEN "closed" ELSE "open",
         material |-> derivePeriodMaterial(phrases), cadence |-> lastCadence]

\* the loop without its limit of four phrases: a period ends on a strong
\* cadence, before a new section or with the last phrase
RECURSIVE PeriodsFromUncapped(_, _, _, _)
PeriodsFromUncapped(phrases, i, periodStart, periods) ==
    IF i > Len(phrases) THEN periods
    ELSE LET phrase == phrases[i]
             isStrongCadence == RLe(Rat(7, 10), getCadenceStrength(phrase.cadence))
             phrasesInPeriod == (i - 1) - periodStart + 1
             shouldEndPeriod ==
                 \/ (isStrongCadence /\ phrasesInPeriod >= 2)
                 \/ (i < Len(phrases) /\ isNewSection(phrase, phrases[i + 1]))
         IN  IF shouldEndPeriod \/ i = Len(phrases)
             THEN PeriodsFromUncapped(phrases, i + 1, i,
                      Append(periods, createPeriod(SubSeq(phrases, periodStart + 1, i), Len(periods))))
             ELSE PeriodsFromUncapped(phrases, i + 1, periodStart, periods)

\* the loop of detectPeriods from phrase i on (i counts from 1, periodStart from 0)
RECURSIVE PeriodsFrom(_, _, _, _)
PeriodsFrom(phrases, i, periodStart, periods) ==
    IF i > Len(phrases) THEN periods
    ELSE LET phrase == phrases[i]
             isStrongCadence == RLe(Rat(7, 10), getCadenceStrength(phrase.cadence))
             phrasesInPeriod == (i - 1) - periodStart + 1
             shouldEndPeriod ==
                 \/ (isStrongCadence /\ phrasesInPeriod >= 2)
                 \/ phrasesInPeriod >= 4
                 \/ (i < Len(phrases) /\ isNewSection(phrase, phrases[i + 1]))
         IN  IF shouldEndPeriod \/ i = Len(phrases)
             THEN PeriodsFrom(phrases, i + 1, i,
                      Append(periods, createPeriod(SubSeq(phrases, periodStart + 1, i), Len(periods))))
             ELSE PeriodsFrom(phrases, i + 1, periodStart, periods)

detectPeriods(phrases) == PeriodsFrom(phrases, 1, 0, <<>>)

arePeriodsParallel(period1, period2) ==
    IF Len(period1.phrases) = 0 \/ Len(period2.phrases) = 0 THEN FALSE
    ELSE /\ RLt(Rat(7, 10), comparePhraseHeads(period1.phrases[1], period2.phrases[1]))
         /\ RLt(getCadenceStrength(period1.cadence), getCadenceStrength(period2.cadence))

\* the pairs (0,1), (2,3), ... of periods that are parallel
detectCompoundPeriods(periods) ==
    LET pairs == [k \in 1..(Len(periods) \div 2) |->
                    [type |-> "compound", periods |-> <<periods[2 * k - 1], periods[2 * k]>>,
                     startMeasure |-> periods[2 * k - 1].startMeasure,
                     endMeasure |-> periods[2 * k].endMeasure, structure |-> "AA'"]]
    IN  SelectSeq(pairs, LAMBDA c : arePeriodsParallel(c.periods[1], c.periods[2]))

calculatePeriodSimilarity(period1, period2) ==
    IF Len(period1.phrases) = 0 \/ Len(period2.phrases) = 0 THEN RInt(0)
    ELSE calculateMelodicSimilarity(
             Flatten([i \in 1..Len(period1.phrases) |-> period1.phrases[i].notes]),
             Flatten([i \in 1..Len(period2.phrases) |-> period2.phrases[i].notes]))

\* the section object the form analyzers build over a run of periods
Section(name, type, function, periods) ==
    [name |-> name, type |-> type, startMeasure |-> periods[1].startMeasure,
     endMeasure |-> periods[Len(periods)].endMeasure, function |-> function, periods |-> periods]

createSections(periods) ==
    [i \in 1..Len(periods) |->
        Section(CapitalLetters[i], "period", IF i = 1 THEN "main" ELSE "secondary", <<periods[i]>>)]

\* counts maps each material to the number of periods that carry it; the main
\* material is the first seen of the most frequent ones
analyzeMaterialPattern(periods) ==
    LET materials == [i \in 1..Len(periods) |-> Head(periods[i].material)]
        counts == [m \in {materials[i] : i \in 1..Len(materials)} |->
                      Cardinality({i \in 1..Len(materials) : materials[i] = m})]
        main == Least({i \in 1..Len(materials) :
                    /\ \A j \in 1..Len(materials) : counts[materials[j]] <= counts[materials[i]]})
    IN  [materials |-> materials, counts |-> counts,
         mainMaterial |-> IF Len(materials) = 0 THEN "a" ELSE materials[main],
         uniqueCount |-> Cardinality(DOMAIN counts),
         hasRecapitulation |-> Len(materials) >= 3 /\ materials[1] = materials[Len(materials)]]

classifyMiddleSection(middlePeriod, firstPeriod) ==
    IF middlePeriod.phraseCount >= 2 /\ middlePeriod.closure = "closed"
    THEN [type |-> "trio", confidence |-> Rat(8, 10)]
    ELSE IF RLt(Rat(5, 10), calculatePeriodSimilarity(middlePeriod, firstPeriod))
    THEN [type |-> "development", confidence |-> Rat(75, 100)]
    ELSE [type |-> "episode", confidence |-> Rat(7, 10)]

analyzeInternalForm(periods) ==
    CASE Len(periods) = 1 -> [type |-> "period"]
      [] Len(periods) = 2 -> [type |-> IF arePeriodsParallel(periods[1], periods[2])
                                       THEN "binary_rounded" ELSE "binary_parallel"]
      [] Len(periods) = 3 -> [type |-> "ternary"]
      [] OTHER -> [type |-> "complex"]

RECURSIVE SumLength(_)
SumLength(periods) == IF periods = <<>> THEN 0 ELSE Head(periods).length + SumLength(Tail(periods))

classifyRecapitulation(originalPeriods, recapPeriods) ==
    IF Len(originalPeriods) = 0 \/ Len(recapPeriods) = 0 THEN [type |-> "unknown"]
    ELSE LET lengthRatio == Rat(SumLength(recapPeriods), SumLength(originalPeriods))
         IN  IF RLt(Rat(95, 100), lengthRatio) /\ RLt(lengthRatio, Rat(105, 100))
             THEN [type |-> "complete"]
             ELSE IF RLt(lengthRatio, Rat(7, 10)) THEN [type |-> "abbreviated"]
             ELSE IF RLt(Rat(13, 10), lengthRatio) THEN [type |-> "expanded"]
             ELSE [type |-> "varied"]

analyzeBinaryForm(periods) ==
    LET A == periods[1]
        B == periods[2]
        \* hasRecapitulation(A, B): the head of A's first phrase against B's last phrase
        hasRecap == RLt(Rat(6, 10), comparePhraseHeads(A.phrases[1], B.phrases[Len(B.phrases)]))
    IN  [formType |-> IF hasRecap THEN "binary_rounded" ELSE "binary_parallel",
         sections |-> <<Section("A", "period", "exposition", <<A>>),
                        Section(IF hasRecap THEN "A'" ELSE "B", "period",
                                IF hasRecap THEN "recapitulation" ELSE "contrast", <<B>>)>>,
         confidence |-> Rat(8, 10)]

analyzeTernaryForm(periods, materialPattern) ==
    LET A == periods[1]
        B == periods[2]
        C == periods[3]
        middleType == classifyMiddleSection(B, A)
    IN  IF materialPattern.hasRecapitulation
        THEN [formType |-> "ternary_simple",
              sections |-> <<Section("A", "period", "exposition", <<A>>),
                             [middleType |-> middleType] @@ Section("B", middleType.type, "middle", <<B>>),
                             Section("A'", "period", "recapitulation", <<C>>)>>,
              confidence |-> Rat(85, 100)]
        ELSE [formType |-> "ternary_parallel",
              sections |-> <<Section("A", "period", "first_theme", <<A>>),
                             Section("B", "period", "second_theme", <<B>>),
                             Section("C", "period", "third_theme", <<C>>)>>,
              confidence |-> Rat(75, 100)]

analyzeCompoundTernaryForm(periods, materialPattern) ==
    LET materials == materialPattern.materials
        n == Len(periods)
        \* 0-based, as in the code; -1 when the loop finds none
        others == {i \in 1..(n - 1) : materials[i + 1] # materials[1]}
        middleStartFound == IF others = {} THEN -1 ELSE Least(others)
        returns == {i \in 1..(n - 1) : middleStartFound # -1 /\ i > middleStartFound
                                         /\ materials[i + 1] = materials[1]}
        middleStart == IF middleStartFound = -1 THEN 1 ELSE middleStartFound
        middleEnd == IF returns = {} THEN n - 2 ELSE Least(returns) - 1
        aPeriods == Slice(periods, 0, middleStart)
        bPeriods == Slice(periods, middleStart, middleEnd + 1)
        aPrimePeriods == Slice(periods, middleEnd + 1, n)
        middleType == classifyMiddleSection(bPeriods[1], aPeriods[1])
        aSection == [internalForm |-> analyzeInternalForm(aPeriods)]
                    @@ Section("A", IF Len(aPeriods) > 1 THEN "section" ELSE "period",
                               "exposition", aPeriods)
        bSection == [middleType |-> middleType, internalForm |-> analyzeInternalForm(bPeriods)]
                    @@ Section("B", IF Len(bPeriods) > 1 THEN "section" ELSE middleType.type,
                               "middle", bPeriods)
        aPrimeSection == [recapitulationType |-> classifyRecapitulation(aPeriods, aPrimePeriods)]
                         @@ Section("A'", IF Len(aPrimePeriods) > 1 THEN "section" ELSE "period",
                                    "recapitulation", aPrimePeriods)
    IN  IF ~materialPattern.hasRecapitulation
        THEN [formType |-> "multi_part", sections |-> createSections(periods), confidence |-> Rat(5, 10)]
        ELSE [formType |-> "ternary_compound",
              sections |-> <<aSection>>
                           \o (IF Len(bPeriods) > 0 THEN <<bSection>> ELSE <<>>)
                           \o (IF Len(aPrimePeriods) > 0 THEN <<aPrimeSection>> ELSE <<>>),
              confidence |-> Rat(75, 100)]

\* p.phrases.flatMap(p => p.notes.map(n => n.duration || 1)) of the two periods
compareRhythms(period1, period2) ==
    compareArrays(extractRhythmPattern(Flatten([i \in 1..Len(period1.phrases) |-> period1.phrases[i].notes])),
                  extractRhythmPattern(Flatten([i \in 1..Len(period2.phrases) |-> period2.phrases[i].notes])))

classifyVariationType(theme, variation) ==
    IF RLt(Rat(7, 10), calculateMelodicSimilarity(theme.phrases[1].notes, variation.phrases[1].notes))
    THEN [type |-> "ornamental"]
    ELSE IF RLt(Rat(7, 10), compareRhythms(theme, variation)) THEN [type |-> "melodic"]
    ELSE [type |-> "character"]

\* detectVariationForm with createVariationSections
detectVariationForm(periods) ==
    LET theme == periods[1]
        similarity == [i \in 1..Len(periods) |-> calculatePeriodSimilarity(periods[i], theme)]
        candidates == [i \in 1..(Len(periods) - 1) |->
                          [index |-> i, period |-> periods[i + 1], similarity |-> similarity[i + 1],
                           variationType |-> classifyVariationType(theme, periods[i + 1])]]
        variations == SelectSeq(candidates, LAMBDA v :
                          RLt(Rat(3, 10), v.similarity) /\ RLt(v.similarity, Rat(9, 10)))
        variationRatio == Rat(Len(variations), Len(periods) - 1)
    IN  IF Len(periods) < 3 THEN [formType |-> "variation", confidence |-> Rat(3, 10)]
        ELSE IF RLt(Rat(6, 10), variationRatio)
        THEN [formType |-> "variation", theme |-> theme, variations |-> variations,
              sections |-> <<Section("Theme", "theme", "theme", <<theme>>)>>
                           \o [i \in 1..Len(variations) |->
                                  [variationType |-> variations[i].variationType]
                                  @@ Section("Var. " \o ToString(i), "variation", "variation",
                                             <<variations[i].period>>)],
              confidence |-> RAdd(Rat(7, 10), RMul(variationRatio, Rat(2, 10)))]
        ELSE [formType |-> "variation", confidence |-> Rat(3, 10)]

\* the section of period i of a rondo: a refrain when it carries the main
\* material, else the next episode
RondoSection(periods, materials, mainMaterial, i) ==
    LET mainThemeIndex == Cardinality({j \in 1..(i - 1) : materials[j] = mainMaterial})
        episodeIndex == Cardinality({j \in 1..i : materials[j] # mainMaterial})
    IN  IF materials[i] = mainMaterial
        THEN [isRecurrence |-> mainThemeIndex > 0]
             @@ Section(IF mainThemeIndex = 0 THEN "A (Main Theme)" ELSE "A" \o ToString(mainThemeIndex),
                        "refrain", "main_theme", <<periods[i]>>)
        ELSE Section(CapitalLetters[episodeIndex + 1] \o " (Episode " \o ToString(episodeIndex) \o ")",
                     "episode", "episode", <<periods[i]>>)

detectRondoForm(periods, materialPattern) ==
    LET mainCount == materialPattern.counts[materialPattern.mainMaterial]
        episodeCount == Cardinality(DOMAIN materialPattern.counts \ {materialPattern.mainMaterial})
        sum == RAdd(Rat(5, 10), RAdd(Rat(mainCount, 10), Rat(episodeCount, 10)))
    IN  IF mainCount < 3 THEN [formType |-> "rondo", confidence |-> Rat(3, 10)]
        ELSE IF episodeCount < 2 THEN [formType |-> "rondo", confidence |-> Rat(4, 10)]
        ELSE [formType |-> "rondo",
              sections |-> [i \in 1..Len(periods) |->
                               RondoSection(periods, materialPattern.materials,
                                            materialPattern.mainMaterial, i)],
              mainThemeCount |-> mainCount, episodeCount |-> episodeCount,
              pattern |-> materialPattern.materials,
              confidence |-> RMin(Rat(9, 10), sum)]

\* the components of the exposition and of the recapitulation are left out
detectSonataForm(periods) ==
    LET expEndIndex == Len(periods) \div 3
        devEndIndex == (2 * Len(periods)) \div 3
        firstPeriod == periods[1]
        lastPeriods == Slice(periods, devEndIndex, Len(periods))
        hasRecapitulation == \E i \in 1..Len(lastPeriods) :
                                 RLt(Rat(5, 10), calculatePeriodSimilarity(lastPeriods[i], firstPeriod))
        expositionPeriods == Slice(periods, 0, expEndIndex + 1)
        developmentPeriods == Slice(periods, expEndIndex + 1, devEndIndex + 1)
        recapPeriods == Slice(periods, devEndIndex + 1, Len(periods))
    IN  IF Len(periods) < 3 THEN [formType |-> "sonata", confidence |-> Rat(3, 10)]
        ELSE IF ~hasRecapitulation THEN [formType |-> "sonata", confidence |-> Rat(4, 10)]
        ELSE [formType |-> "sonata",
              sections |-> <<Section("Exposition", "exposition", "exposition", expositionPeriods)>>
                           \o (IF Len(developmentPeriods) > 0
                               THEN <<Section("Development", "development", "development",
                                              developmentPeriods)>>
                               ELSE <<>>)
                           \o (IF Len(recapPeriods) > 0
                               THEN <<Section("Recapitulation", "recapitulation", "recapitulation",
                                              recapPeriods)>>
                               ELSE <<>>),
              confidence |-> Rat(65, 100)]

detectForm(periods) ==
    LET periodCount == Len(periods)
        materialPattern == analyzeMaterialPattern(periods)
        variationAnalysis == detectVariationForm(periods)
        rondoAnalysis == detectRondoForm(periods, materialPattern)
        sonataAnalysis == detectSonataForm(periods)
    IN  IF periodCount = 0 THEN [formType |-> "one_part", sections |-> <<>>, confidence |-> Rat(5, 10)]
        ELSE IF periodCount = 1
        THEN [formType |-> "one_part", sections |-> <<Section("A", "period", "main", periods)>>,
              confidence |-> Rat(9, 10)]
        ELSE IF periodCount = 2 THEN analyzeBinaryForm(periods)
        ELSE IF periodCount = 3 THEN analyzeTernaryForm(periods, materialPattern)
        ELSE IF RLt(Rat(7, 10), variationAnalysis.confidence) THEN variationAnalysis
        ELSE IF periodCount >= 5 /\ RLt(Rat(6, 10), rondoAnalysis.confidence) THEN rondoAnalysis
        ELSE IF RLt(Rat(6, 10), sonataAnalysis.confidence) THEN sonataAnalysis
        ELSE analyzeCompoundTernaryForm(periods, materialPattern)

\* /^(ab)+a?$/i and /^(ba)+b?$/i on the joined materials, then /^aaba$/i
detectPopularMusicForm(periods) ==
    LET materialPattern == analyzeMaterialPattern(periods)
        materials == materialPattern.materials
        Alternates(x, y) == \A i \in 1..Len(materials) : materials[i] = (IF i % 2 = 1 THEN x ELSE y)
        VerseChorus(i) ==
            LET verse == materials[i] = materials[1]
                count == Cardinality({j \in 1..i : (materials[j] = materials[1]) = verse})
            IN  Section((IF verse THEN "Verse " ELSE "Chorus ") \o ToString(count),
                        IF verse THEN "verse" ELSE "chorus", IF verse THEN "verse" ELSE "chorus",
                        <<periods[i]>>)
        names == <<"A (Verse 1)", "A (Verse 2)", "B (Bridge)", "A' (Verse 3)">>
        functions == <<"verse", "verse", "bridge", "verse">>
    IN  IF Len(periods) < 2 THEN [formType |-> "unknown", confidence |-> Rat(3, 10)]
        ELSE IF materialPattern.uniqueCount = 2 /\ (Alternates("a", "b") \/ Alternates("b", "a"))
        THEN [formType |-> "verse_chorus", sections |-> [i \in 1..Len(periods) |-> VerseChorus(i)],
              confidence |-> Rat(75, 100)]
        ELSE IF materials = <<"a", "a", "b", "a">>
        THEN [formType |-> "aaba",
              sections |-> [i \in 1..4 |-> Section(names[i], functions[i], functions[i], <<periods[i]>>)],
              confidence |-> Rat(8, 10)]
        ELSE [formType |-> "unknown", confidence |-> Rat(3, 10)]

\* the form as detectForm left it, the popular form never looked at
DetectedForm(formAnalysis, popFormAnalysis) == formAnalysis

\* Object.assign(formAnalysis, popFormAnalysis) when the popular form is the
\* more confident one
PreferredForm(formAnalysis, popFormAnalysis) ==
    IF RLt(formAnalysis.confidence, popFormAnalysis.confidence)
    THEN popFormAnalysis @@ formAnalysis
    ELSE formAnalysis

MergedForm(periods) == PreferredForm(detectForm(periods), detectPopularMusicForm(periods))

\* the analysis from the motives and the sub-phrases on, one step of
\* analyzeComplete after the other; the mode, the themes, the auxiliary
\* structures, the statistics and the tooltips are left out
AnalysisFromPeriods(notes, motives, subPhrases, cadences, phrases, periods, chunked) ==
    [motives |-> motives, subPhrases |-> subPhrases, cadences |-> cadences,
     phrases |-> phrases, periods |-> periods,
     compoundPeriods |-> detectCompoundPeriods(periods),
     form |-> MergedForm(periods),
     processingInfo |-> [chunked |-> chunked, totalNotes |-> Len(notes),
                         totalMeasures |-> Cardinality(DOMAIN groupNotesByMeasure(notes))]]

AnalysisFromPhrases(notes, motives, subPhrases, cadences, phrases, chunked) ==
    AnalysisFromPeriods(notes, motives, subPhrases, cadences, phrases, detectPeriods(phrases), chunked)

AnalysisFromCadences(notes, motives, subPhrases, cadences, chunked) ==
    AnalysisFromPhrases(notes, motives, subPhrases, cadences,
                        detectPhrases(notes, cadences, subPhrases), chunked)

AnalysisOf(notes, options, motives, subPhrases, chunked) ==
    AnalysisFromCadences(notes, motives, subPhrases,
                         detectCadences(notes, options.keySignature), chunked)

AnalysisFromMotives(notes, options, motives) ==
    AnalysisOf(notes, options, motives, detectSubPhrases(notes, motives), FALSE)

analyzeComplete(notes, options) ==
    AnalysisFromMotives(notes, options, detectMotives(notes, options.timeSignature))

\* r.startMeasure || r.measureNumber || 0
ItemMeasure(r) ==
    IF "startMeasure" \in DOMAIN r
    THEN (IF r.startMeasure # 0 THEN r.startMeasure
          ELSE IF "measureNumber" \in DOMAIN r THEN r.measureNumber ELSE 0)
    ELSE IF "measureNumber" \in DOMAIN r THEN r.measureNumber ELSE 0

\* chunk k starts at index (k - 1) * (maxMeasures - overlap) of the measure
\* numbers; the notes of chunk k
ChunkStart(notes, k) ==
    SortedSeq(DOMAIN groupNotesByMeasure(notes))[(k - 1) * (maxMeasuresPerChunk - overlapMeasures) + 1]

ChunkEnd(notes, k) ==
    LET measureNumbers == SortedSeq(DOMAIN groupNotesByMeasure(notes))
        last == (k - 1) * (maxMeasuresPerChunk - overlapMeasures) + maxMeasuresPerChunk
    IN  measureNumbers[IF last < Len(measureNumbers) THEN last ELSE Len(measureNumbers)]

ChunkCount(notes) ==
    LET step == maxMeasuresPerChunk - overlapMeasures
    IN  (Cardinality(DOMAIN groupNotesByMeasure(notes)) + step - 1) \div step

\* the note lists processInChunks hands to its processor: the whole list when
\* the measures fit in one chunk
ChunkNotes(notes) ==
    IF Cardinality(DOMAIN groupNotesByMeasure(notes)) <= maxMeasuresPerChunk THEN <<notes>>
    ELSE LET first == [k \in 1..ChunkCount(notes) |-> ChunkStart(notes, k)]
             last == [k \in 1..ChunkCount(notes) |-> ChunkEnd(notes, k)]
         IN  [k \in 1..ChunkCount(notes) |->
                 SelectSeq(notes, LAMBDA n : n.measureNumber >= first[k] /\ n.measureNumber <= last[k])]

\* processInChunks, from the results of the processor for the note lists
\* above: they are merged in the order of the chunks
processInChunks(notes, chunkResults) ==
    LET first == [k \in 1..ChunkCount(notes) |-> ChunkStart(notes, k)]
        RECURSIVE Merge(_, _)
        Merge(k, results) ==
            IF k > Len(chunkResults) THEN results
            ELSE IF Len(results) = 0 THEN Merge(k + 1, chunkResults[k])
            ELSE Merge(k + 1, results \o SelectSeq(chunkResults[k], LAMBDA r :
                                  2 * ItemMeasure(r) >= 2 * first[k] + overlapMeasures))
    IN  IF Cardinality(DOMAIN groupNotesByMeasure(notes)) <= maxMeasuresPerChunk
        THEN chunkResults[1]
        ELSE Merge(1, <<>>)

\* the motives of the chunks
ChunkedMotives(notes, options, chunks) ==
    processInChunks(notes, [k \in 1..Len(chunks) |-> detectMotives(chunks[k], options.timeSignature)])

\* the sub-phrases of the chunks, each chunk with the motives of its measures
ChunkedSubPhrases(notes, motives, chunks) ==
    processInChunks(notes, [k \in 1..Len(chunks) |->
        detectSubPhrases(chunks[k], SelectSeq(motives, LAMBDA m :
            \E i \in 1..Len(chunks[k]) : chunks[k][i].measureNumber = m.measureNumber))])

ChunkedFromMotives(notes, options, motives, chunks) ==
    AnalysisOf(notes, options, motives, ChunkedSubPhrases(notes, motives, chunks), TRUE)

ChunkedFromNotes(notes, options, chunks) ==
    ChunkedFromMotives(notes, options, ChunkedMotives(notes, options, chunks), chunks)

analyzeCompleteChunked(notes, options) ==
    IF /\ Len(notes) < maxNotesPerChunk * 2
       /\ Cardinality(DOMAIN groupNotesByMeasure(notes)) < maxMeasuresPerChunk * 2
    THEN analyzeComplete(notes, options)
    ELSE ChunkedFromNotes(notes, options, ChunkNotes(notes))

-----------------------------------------------------------------------------
(* StructureAnalyzer (unnamed/part_006)                                    *)
(*                                                                         *)
(* The tree is the Map nodes, the list of its nodes in the order buildTree *)
(* sets them; a reference to a node is its place in the list, 0 for null,  *)
(* and the root is node 1.  generateId draws a random UUID: the ids are    *)
(* taken to be distinct, and a node is kept under its id.                  *)
(* features.cadence is kept as the field cadence, and visualStyle is null  *)
(* until assignConfidence sets it; the tooltips are left out.              *)

Node(type, startMeasure, endMeasure, parent, material, confidence, cadence) ==
    [id |-> "", type |-> type, startMeasure |-> startMeasure, endMeasure |-> endMeasure,
     children |-> <<>>, parent |-> parent, material |-> material,
     confidence |-> confidence, cadence |-> cadence, visualStyle |-> Null]

\* the id of the node that is created as the k-th
NodeId(k) == "n" \o ToString(k)

\* parent.children.push(node); nodes.set(node.id, node)
AddNode(nodes, node) ==
    LET added == Append(nodes, [node EXCEPT !.id = NodeId(Len(nodes) + 1)])
    IN  IF node.parent = 0 THEN added
        ELSE [added EXCEPT ![node.parent].children = Append(@, Len(added))]

\* the loop of addMotives from measure m on
RECURSIVE MotivesFrom(_, _, _, _)
MotivesFrom(nodes, parent, m, motiveIndex) ==
    LET endMeasure == nodes[parent].endMeasure
        totalMeasures == endMeasure - nodes[parent].startMeasure + 1
        motiveSize == IF totalMeasures <= 2 THEN 1 ELSE 2
        motiveEnd == IF m + motiveSize - 1 < endMeasure THEN m + motiveSize - 1 ELSE endMeasure
    IN  IF m > endMeasure THEN nodes
        ELSE MotivesFrom(AddNode(nodes, Node("motive", m, motiveEnd, parent,
                                             <<"m" \o ToString(motiveIndex + 1)>>, Rat(6, 10), Null)),
                         parent, m + motiveSize, motiveIndex + 1)

addMotives(nodes, parent) == MotivesFrom(nodes, parent, nodes[parent].startMeasure, 0)

\* a phrase node with its two halves or its motives; "1" and "2" stand for the
\* subscript digits
AddPhrase(nodes, periodNode, phrase) ==
    LET withPhrase == AddNode(nodes, Node("phrase", phrase.startMeasure, phrase.endMeasure, periodNode,
                                          phrase.material,
                                          IF phrase.cadence # Null THEN Rat(8, 10) ELSE Rat(6, 10),
                                          phrase.cadence))
        phraseNode == Len(withPhrase)
        phraseMeasures == phrase.endMeasure - phrase.startMeasure + 1
        midPoint == phrase.startMeasure + (phraseMeasures \div 2) - 1
        subphrase1 == Node("subphrase", phrase.startMeasure, midPoint, phraseNode,
                           phrase.material \o <<"1">>, Rat(65, 100), Null)
        subphrase2 == Node("subphrase", midPoint + 1, phrase.endMeasure, phraseNode,
                           phrase.material \o <<"2">>, Rat(65, 100), Null)
        withHalves == AddNode(AddNode(withPhrase, subphrase1), subphrase2)
    IN  IF phraseMeasures >= 4
        THEN addMotives(addMotives(withHalves, phraseNode + 1), phraseNode + 2)
        ELSE addMotives(withPhrase, phraseNode)

\* a period node under the first section that holds its range, else under the
\* root, with its phrases from phrase k on
RECURSIVE PhrasesInto(_, _, _, _)
PhrasesInto(nodes, periodNode, phrases, k) ==
    IF k > Len(phrases) THEN nodes
    ELSE PhrasesInto(AddPhrase(nodes, periodNode, phrases[k]), periodNode, phrases, k + 1)

AddPeriod(nodes, period) ==
    LET startMeasure == IF Len(period.phrases) = 0 THEN 0 ELSE period.phrases[1].startMeasure
        endMeasure == IF Len(period.phrases) = 0 THEN 0
                      ELSE period.phrases[Len(period.phrases)].endMeasure
        sections == {s \in 1..Len(nodes[1].children) :
                        /\ startMeasure >= nodes[nodes[1].children[s]].startMeasure
                        /\ endMeasure <= nodes[nodes[1].children[s]].endMeasure}
        parentSection == IF sections = {} THEN 1 ELSE nodes[1].children[Least(sections)]
        material == IF period.type = "parallel" THEN <<"a", "+", "a", "'">> ELSE <<"a", "+", "b">>
        withPeriod == AddNode(nodes, Node("period", startMeasure, endMeasure, parentSection,
                                          material, Rat(75, 100), Null))
    IN  PhrasesInto(withPeriod, Len(withPeriod), period.phrases, 1)

RECURSIVE PeriodsInto(_, _, _)
PeriodsInto(nodes, periods, k) ==
    IF k > Len(periods) THEN nodes
    ELSE PeriodsInto(AddPeriod(nodes, periods[k]), periods, k + 1)

buildTree(score, phrases, periods, formAnalysis) ==
    LET root == Node("section", 1, Len(score.measures), 0, <<"A">>, Rat(8, 10), Null)
        sections == [i \in 1..Len(formAnalysis.sections) |->
                        Node("theme", formAnalysis.sections[i].startMeasure,
                             formAnalysis.sections[i].endMeasure, 1,
                             <<formAnalysis.sections[i].name>>, formAnalysis.confidence, Null)]
        created == <<root>> \o sections
        withSections == [i \in 1..Len(created) |->
                            [created[i] EXCEPT !.id = NodeId(i),
                                               !.children = IF i = 1
                                                            THEN [k \in 1..Len(sections) |-> k + 1]
                                                            ELSE <<>>]]
    IN  PeriodsInto(withSections, periods, 1)

\* traverse visits a node before its children, so a node is averaged with the
\* confidences its children had when the tree was built
assignConfidence(nodes) ==
    LET Base(c) == IF c.n = 0 THEN Rat(5, 10) ELSE c
        RECURSIVE Sum(_, _)
        Sum(children, k) == IF k > Len(children) THEN RInt(0)
                            ELSE RAdd(Base(nodes[children[k]].confidence), Sum(children, k + 1))
        Averaged(node) == IF Len(node.children) = 0 THEN Base(node.confidence)
                          ELSE RDiv(RAdd(Base(node.confidence),
                                         RDiv(Sum(node.children, 1), RInt(Len(node.children)))),
                                    RInt(2))
        Adjusted(node) == IF node.cadence # Null THEN RAdd(Averaged(node), Rat(1, 10))
                          ELSE Averaged(node)
        Clamped(node) == RMin(RInt(1), RMax(RInt(0), Adjusted(node)))
    IN  [i \in 1..Len(nodes) |->
            [nodes[i] EXCEPT !.confidence = Clamped(nodes[i]),
                             !.visualStyle = getConfidenceVisualStyle(Clamped(nodes[i]))]]

\* the intervals between the first five notes, as the list that split(',')
\* reads back from the joined string; null and the empty string of a single
\* note are both the empty list
calculateMaterialHash(notes) == extractIntervalPattern(Slice(notes, 0, 5))

\* !hash1 || !hash2 holds for null and for the empty string
isSimilarHash(hash1, hash2) ==
    IF hash1 = <<>> \/ hash2 = <<>> THEN FALSE
    ELSE IF Len(hash1) # Len(hash2) THEN FALSE
    ELSE 10 * Cardinality({i \in 1..Len(hash1) : Abs(hash1[i] - hash2[i]) <= 2}) > 7 * Len(hash1)

\* the nodes below and with node id, each before its children
RECURSIVE PreOrder(_, _)
PreOrder(nodes, id) ==
    <<id>> \o Flatten([k \in 1..Len(nodes[id].children) |-> PreOrder(nodes, nodes[id].children[k])])

\* the traversal of labelMaterials from place k of the order on; materialGroups
\* holds the hashes with their labels in the order they were set
RECURSIVE LabelFrom(_, _, _, _, _)
LabelFrom(nodes, notes, order, k, materialGroups) ==
    IF k > Len(order) THEN nodes
    ELSE LET node == nodes[order[k]]
             materialHash == calculateMaterialHash(
                                 getNotesInRange(notes, node.startMeasure, node.endMeasure))
             similar == {g \in 1..Len(materialGroups) :
                            isSimilarHash(materialHash, materialGroups[g].hash)}
             label == materialGroups[Least(similar)].label
         IN  IF similar # {}
             THEN LabelFrom([nodes EXCEPT ![order[k]].material = label \o <<"'">>],
                            notes, order, k + 1, materialGroups)
             ELSE IF materialHash # <<>>
             THEN LabelFrom(nodes, notes, order, k + 1,
                            Append(materialGroups, [hash |-> materialHash, label |-> node.material]))
             ELSE LabelFrom(nodes, notes, order, k + 1, materialGroups)

labelMaterials(nodes, notes) == LabelFrom(nodes, notes, PreOrder(nodes, 1), 1, <<>>)

\* the tree of buildHierarchy from the analysis on
HierarchyOf(score, analysisResult) ==
    labelMaterials(assignConfidence(buildTree(score, analysisResult.phrases,
                                              analysisResult.periods, analysisResult.form)),
                   score.notes)

buildHierarchy(score) ==
    LET options == [keySignature |-> score.keySignature, timeSignature |-> score.timeSignature]
    IN  HierarchyOf(score, IF Len(score.notes) > 1000 \/ Len(score.measures) > 64
                           THEN analyzeCompleteChunked(score.notes, options)
                           ELSE analyzeComplete(score.notes, options))

-----------------------------------------------------------------------------
(* MusicXMLParser (unnamed/part_004) and the scores of the analysis        *)
(*                                                                         *)
(* A document is the list of its measure elements: number is the number    *)
(* attribute as parseInt reads it (0 when it is missing or no number) and  *)
(* notes are the pitched notes in order, [name, octave, duration] with the *)
(* duration in beats (divisions of 1).  Rests, chords, voices, dynamics,   *)
(* tempo and parts are left out.                                           *)

\* Bound of the scores: the patterns are cut to 0..MaxMeasures measures
MaxMeasures == 24

extractNotesFromMeasure(measureEl, measureNumber) ==
    LET RECURSIVE BeatOf(_)
        BeatOf(i) == IF i = 1 THEN 0 ELSE BeatOf(i - 1) + measureEl.notes[i - 1].duration
    IN  [i \in 1..Len(measureEl.notes) |->
            [pitch |-> [name |-> measureEl.notes[i].name, octave |-> measureEl.notes[i].octave],
             duration |-> measureEl.notes[i].duration,
             measureNumber |-> measureNumber, beat |-> BeatOf(i)]]

\* parseInt(measureEl.getAttribute('number')) || index + 1, index from 0
extractMeasures(doc) ==
    [i \in 1..Len(doc.measures) |->
        LET measureNumber == IF doc.measures[i].number = 0 THEN i ELSE doc.measures[i].number
        IN  [number |-> measureNumber,
             notes |-> extractNotesFromMeasure(doc.measures[i], measureNumber)]]

parse(doc) ==
    LET measures == extractMeasures(doc)
    IN  [measures |-> measures,
         notes |-> Flatten([i \in 1..Len(measures) |-> measures[i].notes]),
         keySignature |-> [fifths |-> doc.fifths, mode |-> doc.mode],
         timeSignature |-> [beats |-> doc.beats, beatType |-> 4]]

\* a document in C major whose measures are numbered from first on and hold
\* the given notes
Document(first, contents, beats) ==
    [measures |-> [i \in 1..Len(contents) |-> [number |-> first + i - 1, notes |-> contents[i]]],
     fifths |-> 0, mode |-> "major", beats |-> beats]

\* one whole note in each measure, the names taken in turn from the pattern;
\* the last measure takes the last name when the pattern ends on a close
WholeNotes(pattern, length) ==
    [i \in 1..length |->
        <<[name |-> IF i = length /\ pattern.close # "" THEN pattern.close
                    ELSE pattern.names[((i - 1) % Len(pattern.names)) + 1],
           octave |-> 4, duration |-> 4]>>]

\* the bass lines of the whole-note scores: a drone, a line with a cadence in
\* every other measure, and a line whose only cadence falls on its last measure
Drone == [names |-> <<"C">>, close |-> ""]

Patterns ==
    {Drone,
     [names |-> <<"E", "G", "G", "C", "A", "G", "G", "C">>, close |-> ""],
     [names |-> <<"C">>, close |-> "G"]}

\* measures of four quarter notes and of five notes with a long second note
Figures ==
    LET Quarters(names) == [k \in 1..4 |-> [name |-> names[k], octave |-> 4, duration |-> 1]]
        Dotted(names) == [k \in 1..5 |-> [name |-> names[k], octave |-> 4,
                                          duration |-> IF k = 2 THEN 2 ELSE 1]]
        tonic == <<"C", "E", "G", "E">>
        dominant == <<"G", "A", "B", "A">>
        subdominant == <<"F", "G", "A", "G">>
    IN  {Document(1, <<Quarters(tonic), Quarters(dominant), Quarters(tonic), Quarters(subdominant),
                       Quarters(tonic), Quarters(dominant), Quarters(dominant), Quarters(tonic)>>, 4),
         Document(1, <<Dotted(<<"C", "D", "E", "F", "G">>), Dotted(<<"G", "F", "E", "D", "C">>),
                       Dotted(<<"C", "D", "E", "F", "G">>), Dotted(<<"G", "A", "B", "C", "D">>)>>, 6)}

\* the scores: the whole-note lines of every length, the drone at and just
\* over the length where the chunked analysis starts to cut the piece, an
\* excerpt whose measures are numbered from 5 on, and the figures
Documents ==
    {Document(1, WholeNotes(pattern, length), 4) : pattern \in Patterns, length \in 0..MaxMeasures}
    \cup {Document(1, WholeNotes(Drone, length), 4) :
              length \in {2 * maxMeasuresPerChunk, 2 * maxMeasuresPerChunk + 1}}
    \cup {Document(5, WholeNotes([names |-> <<"E", "G", "G", "C">>, close |-> ""], 4), 4)}
    \cup Figures

Options(score) == [keySignature |-> score.keySignature, timeSignature |-> score.timeSignature]

\* a score as parsed, before any analysis of it
AnalysisInit ==
    /\ parsedScore \in {parse(doc) : doc \in Documents}
    /\ analysis = Null
    /\ chunkedAnalysis = Null
    /\ structureTree = <<>>
    /\ symbolicChroma = <<>> /\ acousticChroma = <<>> /\ alignOptions = Null
    /\ alignmentResult = Null /\ dtwMeasureToTime = <<>> /\ dtwTimeToMeasure = <<>>
    /\ dtwOp = "idle" /\ adjustCount = 0
    /\ examples = <<>> /\ exampleCount = 0 /\ featureWeights = Null /\ now = 0
    /\ prefOp = "idle" /\ prefQuery = Null /\ prefReturned = Null
    /\ storeTree = Null /\ storeShared = FALSE /\ exportedStructure = Null /\ exportedFrom = Null
    /\ storeOp = Null /\ editCount = 0
    /\ session = Null /\ sessionCount = 0 /\ exportedSession = Null /\ sessionAtExport = Null
    /\ sessOp = Null /\ exportedFile = Null

AnalyzeComplete ==
    /\ parsedScore # Null
    /\ analysis = Null
    /\ analysis' = analyzeComplete(parsedScore.notes, Options(parsedScore))
    /\ UNCHANGED <<parsedScore, chunkedAnalysis, structureTree, dtwVars, prefVars, storeVars>>

AnalyzeCompleteChunked ==
    /\ parsedScore # Null
    /\ chunkedAnalysis = Null
    /\ chunkedAnalysis' = analyzeCompleteChunked(parsedScore.notes, Options(parsedScore))
    /\ UNCHANGED <<parsedScore, analysis, structureTree, dtwVars, prefVars, storeVars>>

BuildHierarchy ==
    /\ parsedScore # Null
    /\ structureTree = <<>>
    /\ structureTree' = buildHierarchy(parsedScore)
    /\ UNCHANGED <<parsedScore, analysis, chunkedAnalysis, dtwVars, prefVars, storeVars>>

AnalysisNext == AnalyzeComplete \/ AnalyzeCompleteChunked \/ BuildHierarchy

SpecAnalysis == AnalysisInit /\ [][AnalysisNext]_vars

\* C1: analyzeComplete and analyzeCompleteChunked agree on the cadences, the
\* phrases, the periods and the form of every score
C1_ChunkInvariance ==
    (analysis # Null /\ chunkedAnalysis # Null)
        => /\ chunkedAnalysis.cadences = analysis.cadences
           /\ chunkedAnalysis.phrases = analysis.phrases
           /\ chunkedAnalysis.periods = analysis.periods
           /\ chunkedAnalysis.form = analysis.form

\* C2: in the tree buildHierarchy returns every node starts no later than it
\* ends and every child's measure range lies inside its parent's
C2_Nesting ==
    \A i \in 1..Len(structureTree) :
        /\ structureTree[i].startMeasure <= structureTree[i].endMeasure
        /\ structureTree[i].parent # 0 =>
              /\ structureTree[structureTree[i].parent].startMeasure <= structureTree[i].startMeasure
              /\ structureTree[i].endMeasure <= structureTree[structureTree[i].parent].endMeasure

\* C3: in the tree buildHierarchy returns the children of a node do not
\* overlap, and a period or a phrase starts at the measure right after the
\* sibling before it ends
C3_Siblings ==
    \A i \in 1..Len(structureTree) :
        LET children == [k \in 1..Len(structureTree[i].children) |->
                            structureTree[structureTree[i].children[k]]]
        IN  /\ \A k, l \in 1..Len(children) :
                   k < l => \/ children[k].endMeasure < children[l].startMeasure
                            \/ children[l].endMeasure < children[k].startMeasure
            /\ \A k \in 2..Len(children) :
                   children[k].type \in {"period", "phrase"}
                       => children[k].startMeasure = children[k - 1].endMeasure + 1

\* C4: every phrase detectPhrases emits is 2 to 12 measures long
C4_PhraseLengths ==
    analysis # Null =>
        \A i \in 1..Len(analysis.phrases) :
            /\ analysis.phrases[i].endMeasure - analysis.phrases[i].startMeasure + 1 >= 2
            /\ analysis.phrases[i].endMeasure - analysis.phrases[i].startMeasure + 1 <= 12

-----------------------------------------------------------------------------
(* Structure store (src/App.vue) and the editing methods of                *)
(* StructureAnalyzer (unnamed/part_006)                                    *)
(*                                                                         *)
(* structureTree.value is [root, nodes]: nodes is the Map of the nodes in  *)
(* insertion order, root the place of the root node.  setStructureTree     *)
(* keeps the very object the analyzer built, so that until an import puts  *)
(* a new object in its place an edit through either of them is seen by     *)
(* both.  The sets of expanded, selected and highlighted nodes and the     *)
(* form analysis, cadences, phrases and periods kept beside the tree are   *)
(* left out.                                                               *)

\* Bound of the number of editing calls in a run
MaxEdits == 2

\* nodes.get(id): the place of the node kept under id, 0 for undefined
findNode(nodes, nodeId) ==
    LET found == {p \in 1..Len(nodes) : nodes[p].id = nodeId}
    IN  IF found = {} THEN 0 ELSE Least(found)

\* Math.max(0.5, (node.confidence || 0.7) - 0.1)
storeLowered(confidence) ==
    RMax(Rat(1, 2), RSub(IF confidence.n = 0 THEN Rat(7, 10) ELSE confidence, Rat(1, 10)))

\* Math.max(0.5, node.confidence - 0.1)
analyzerLowered(confidence) == RMax(Rat(1, 2), RSub(confidence, Rat(1, 10)))

updateNodeBoundaries(nodes, nodeId, startMeasure, endMeasure) ==
    LET node == findNode(nodes, nodeId)
    IN  IF node = 0 THEN nodes
        ELSE [nodes EXCEPT ![node].startMeasure = startMeasure,
                           ![node].endMeasure = endMeasure,
                           ![node].confidence = storeLowered(@)]

updateNodeType(nodes, nodeId, newType) ==
    LET node == findNode(nodes, nodeId)
    IN  IF node = 0 THEN nodes
        ELSE [nodes EXCEPT ![node].type = newType,
                           ![node].confidence = storeLowered(@)]

updateNodeMaterial(nodes, nodeId, material) ==
    LET node == findNode(nodes, nodeId)
    IN  IF node = 0 THEN nodes
        ELSE [nodes EXCEPT ![node].material = material]

\* StructureAnalyzer.updateNodeBoundaries
analyzerUpdateNodeBoundaries(nodes, nodeId, startMeasure, endMeasure) ==
    LET node == findNode(nodes, nodeId)
    IN  IF node = 0 THEN nodes
        ELSE [nodes EXCEPT ![node].startMeasure = startMeasure,
                           ![node].endMeasure = endMeasure,
                           ![node].confidence = analyzerLowered(@)]

changeNodeType(nodes, nodeId, newType) ==
    LET node == findNode(nodes, nodeId)
    IN  IF node = 0 THEN nodes
        ELSE [nodes EXCEPT ![node].type = newType,
                           ![node].confidence = analyzerLowered(@)]

\* node.parent?.id || null
ExportedParent(nodes, node) ==
    IF node.parent = 0 THEN Null ELSE [id |-> nodes[node.parent].id]

\* node.children?.map(c => c.id) || []
ExportedChildren(nodes, node) ==
    [k \in 1..Len(node.children) |-> nodes[node.children[k]].id]

\* nodesObj[id] = value: a property that exists keeps its place
SetProperty(obj, key, value) ==
    IF \E e \in 1..Len(obj) : obj[e].key = key
    THEN [e \in 1..Len(obj) |-> IF obj[e].key = key THEN [key |-> key, value |-> value] ELSE obj[e]]
    ELSE Append(obj, [key |-> key, value |-> value])

\* the object exportStructure fills from the first p nodes of the Map; its
\* properties are its entries in the order Object.entries lists them
RECURSIVE NodesObj(_, _)
NodesObj(nodes, p) ==
    IF p = 0 THEN <<>>
    ELSE SetProperty(NodesObj(nodes, p - 1), nodes[p].id,
                     [nodes[p] EXCEPT !.parent = ExportedParent(nodes, nodes[p]),
                                      !.children = ExportedChildren(nodes, nodes[p])])

exportStructure(tree) ==
    IF tree = Null THEN Null
    ELSE [root |-> tree.nodes[tree.root].id, nodes |-> NodesObj(tree.nodes, Len(tree.nodes))]

\* first pass: nodes.set(id, {...nodeData, parent: null, children: []})
RECURSIVE CreateNodes(_, _)
CreateNodes(entries, e) ==
    IF e = 0 THEN <<>>
    ELSE LET created == CreateNodes(entries, e - 1)
             node == [entries[e].value EXCEPT !.parent = 0, !.children = <<>>]
             at == {p \in 1..Len(created) : created[p].key = entries[e].key}
         IN  IF at = {} THEN Append(created, [key |-> entries[e].key, node |-> node])
             ELSE [created EXCEPT ![Least(at)].node = node]

\* nodes.get(id) on the Map of the first pass
Created(created, id) ==
    LET found == {p \in 1..Len(created) : created[p].key = id}
    IN  IF found = {} THEN 0 ELSE Least(found)

\* second pass, parents only
LinkParents(entries, created) ==
    [p \in 1..Len(created) |->
        LET nodeData == entries[Least({e \in 1..Len(entries) : entries[e].key = created[p].key})].value
        IN  [created[p].node EXCEPT
                !.parent = IF nodeData.parent # Null THEN Created(created, nodeData.parent.id) ELSE @]]

\* second pass: node.parent = nodes.get(nodeData.parent);
\* node.children = nodeData.children.map(childId => nodes.get(childId)).filter(Boolean)
LinkNodes(entries, created) ==
    [p \in 1..Len(created) |->
        LET nodeData == entries[Least({e \in 1..Len(entries) : entries[e].key = created[p].key})].value
        IN  [created[p].node EXCEPT
                !.parent = IF nodeData.parent # Null THEN Created(created, nodeData.parent.id) ELSE @,
                !.children = SelectSeq([k \in 1..Len(nodeData.children) |->
                                           Created(created, nodeData.children[k])],
                                       LAMBDA child : child # 0)]]

\* the tree importStructure puts in the store; without data the store keeps its own
importStructure(tree, data) ==
    IF data = Null THEN tree
    ELSE LET created == CreateNodes(data.nodes, Len(data.nodes))
         IN  [root |-> Created(created, data.root), nodes |-> LinkNodes(data.nodes, created)]

\* the scores whose trees the store is given
StoreDocuments ==
    {Document(1, WholeNotes([names |-> <<"E", "G", "G", "C">>, close |-> ""], 4), 4),
     Document(1, WholeNotes(Drone, 2), 4)}

\* the arguments of the editing calls
EditNodeIds == {NodeId(1), NodeId(4), NodeId(6), "none"}
EditBoundaries == {<<1, 1>>}
EditTypes == {"phrase"}
EditMaterials == {<<"x">>}

\* an edit of the node nodeId of nodes, or of none when it is not there
EditOf(name, nodes, nodeId) ==
    [name |-> name, nodeId |-> nodeId, found |-> findNode(nodes, nodeId) # 0,
     before |-> IF findNode(nodes, nodeId) = 0 THEN Null
                ELSE nodes[findNode(nodes, nodeId)].confidence]

\* a new session id: generateSessionId joins the time and a random string
SessionId(k) == "session-" \o ToString(k)

\* the session store as constructed; the files, the audio buffer and the
\* progress of the processing are not exported and are left out
NewSession(k) ==
    [sessionId |-> SessionId(k), createdAt |-> [time |-> k], parsedScore |-> Null,
     audioFeatures |-> Null, alignment |-> Null, analysisComplete |-> FALSE]

\* the application after a score was parsed and its hierarchy built, before
\* anything is put in the stores
StoreInit ==
    /\ parsedScore \in {parse(doc) : doc \in StoreDocuments}
    /\ structureTree = buildHierarchy(parsedScore)
    /\ analysis = Null
    /\ chunkedAnalysis = Null
    /\ storeTree = Null
    /\ storeShared = FALSE
    /\ exportedStructure = Null
    /\ exportedFrom = Null
    /\ storeOp = [name |-> "constructor"]
    /\ editCount = 0
    /\ session = NewSession(1)
    /\ sessionCount = 1
    /\ exportedSession = Null
    /\ sessionAtExport = Null
    /\ sessOp = [name |-> "constructor"]
    /\ exportedFile = Null
    /\ symbolicChroma = <<>> /\ acousticChroma = <<>> /\ alignOptions = Null
    /\ alignmentResult = Null /\ dtwMeasureToTime = <<>> /\ dtwTimeToMeasure = <<>>
    /\ dtwOp = "idle" /\ adjustCount = 0
    /\ examples = <<>> /\ exampleCount = 0 /\ featureWeights = Null /\ now = 0
    /\ prefOp = "idle" /\ prefQuery = Null /\ prefReturned = Null

\* structureStore.setStructureTree(structureTree) of startAnalysis
SetStructureTree ==
    /\ storeTree = Null
    /\ storeTree' = [root |-> 1, nodes |-> structureTree]
    /\ storeShared' = TRUE
    /\ storeOp' = [name |-> "setStructureTree"]
    /\ UNCHANGED <<exportedStructure, exportedFrom, editCount, engVars, sessVars, dtwVars, prefVars>>

\* an editing method of the store; without a tree it does nothing
StoreEdit(name, nodeId, edited) ==
    /\ storeTree # Null
    /\ editCount < MaxEdits
    /\ editCount' = editCount + 1
    /\ storeTree' = [storeTree EXCEPT !.nodes = edited]
    /\ structureTree' = IF storeShared THEN edited ELSE structureTree
    /\ storeOp' = EditOf(name, storeTree.nodes, nodeId)
    /\ UNCHANGED <<storeShared, exportedStructure, exportedFrom, parsedScore, analysis, chunkedAnalysis,
                   sessVars, dtwVars, prefVars>>

UpdateNodeBoundaries ==
    \E nodeId \in EditNodeIds, range \in EditBoundaries :
        /\ storeTree # Null
        /\ StoreEdit("updateNodeBoundaries", nodeId,
                     updateNodeBoundaries(storeTree.nodes, nodeId, range[1], range[2]))

UpdateNodeType ==
    \E nodeId \in EditNodeIds, newType \in EditTypes :
        /\ storeTree # Null
        /\ StoreEdit("updateNodeType", nodeId, updateNodeType(storeTree.nodes, nodeId, newType))

UpdateNodeMaterial ==
    \E nodeId \in EditNodeIds, material \in EditMaterials :
        /\ storeTree # Null
        /\ StoreEdit("updateNodeMaterial", nodeId, updateNodeMaterial(storeTree.nodes, nodeId, material))

\* an editing method of the analyzer
AnalyzerEdit(name, nodeId, edited) ==
    /\ editCount < MaxEdits
    /\ editCount' = editCount + 1
    /\ structureTree' = edited
    /\ storeTree' = IF storeShared THEN [storeTree EXCEPT !.nodes = edited] ELSE storeTree
    /\ storeOp' = EditOf(name, structureTree, nodeId)
    /\ UNCHANGED <<storeShared, exportedStructure, exportedFrom, parsedScore, analysis, chunkedAnalysis,
                   sessVars, dtwVars, prefVars>>

AnalyzerUpdateNodeBoundaries ==
    \E nodeId \in EditNodeIds, range \in EditBoundaries :
        AnalyzerEdit("analyzer.updateNodeBoundaries", nodeId,
                     analyzerUpdateNodeBoundaries(structureTree, nodeId, range[1], range[2]))

ChangeNodeType ==
    \E nodeId \in EditNodeIds, newType \in EditTypes :
        AnalyzerEdit("analyzer.changeNodeType", nodeId, changeNodeType(structureTree, nodeId, newType))

ExportStructure ==
    /\ storeTree # Null
    /\ exportedStructure' = exportStructure(storeTree)
    /\ exportedFrom' = storeTree
    /\ storeOp' = [name |-> "exportStructure"]
    /\ UNCHANGED <<storeTree, storeShared, editCount, engVars, sessVars, dtwVars, prefVars>>

\* importStructure of what exportStructure returned
ImportStructure ==
    /\ exportedStructure # Null
    /\ storeTree' = importStructure(storeTree, exportedStructure)
    /\ storeShared' = FALSE
    /\ storeOp' = [name |-> "importStructure"]
    /\ UNCHANGED <<exportedStructure, exportedFrom, editCount, engVars, sessVars, dtwVars, prefVars>>

StructureNext ==
    \/ SetStructureTree
    \/ UpdateNodeBoundaries
    \/ UpdateNodeType
    \/ UpdateNodeMaterial
    \/ AnalyzerUpdateNodeBoundaries
    \/ ChangeNodeType
    \/ ExportStructure
    \/ ImportStructure

SpecStructure == StoreInit /\ [][StructureNext]_vars

\* the tree the last editing call worked on
EditedNodes ==
    IF storeOp.name \in {"analyzer.updateNodeBoundaries", "analyzer.changeNodeType"}
    THEN structureTree ELSE storeTree.nodes

\* C5: after updateNodeBoundaries, updateNodeType or updateNodeMaterial the
\* confidence of the edited node is 0.1 less than before, but no less than 0.5
C5_EditsLowerConfidence ==
    (/\ storeOp.name \in {"updateNodeBoundaries", "updateNodeType", "updateNodeMaterial",
                          "analyzer.updateNodeBoundaries", "analyzer.changeNodeType"}
     /\ storeOp.found)
        => EditedNodes[findNode(EditedNodes, storeOp.nodeId)].confidence
               = RMax(Rat(1, 2), RSub(storeOp.before, Rat(1, 10)))

\* the id of the node a reference points to, "" for null
RefId(nodes, ref) == IF ref = 0 THEN "" ELSE nodes[ref].id

\* C7: after importStructure(exportStructure()) every node's parent and its
\* list of children refer to the nodes with the same ids as at the export,
\* a node is the parent of its children and a child of its parent, and the
\* root is the node with the exported root id
C7_ImportRestoresLinks ==
    storeOp.name = "importStructure" =>
        LET new == storeTree.nodes
            old == exportedFrom.nodes
        IN  /\ Len(new) = Len(old)
            /\ \A p \in 1..Len(old) :
                   LET q == findNode(new, old[p].id)
                   IN  /\ q # 0
                       /\ RefId(new, new[q].parent) = RefId(old, old[p].parent)
                       /\ [k \in 1..Len(new[q].children) |-> RefId(new, new[q].children[k])]
                              = [k \in 1..Len(old[p].children) |-> RefId(old, old[p].children[k])]
            /\ \A q \in 1..Len(new) :
                   /\ \A k \in 1..Len(new[q].children) : new[new[q].children[k]].parent = q
                   /\ new[q].parent # 0 =>
                          \E k \in 1..Len(new[new[q].parent].children) : new[new[q].parent].children[k] = q
            /\ storeTree.root # 0
            /\ new[storeTree.root].id = exportedStructure.root
            /\ new[storeTree.root].id = old[exportedFrom.root].id

\* an imported tree with a node between the root and the leaves, imported
\* after the tree was edited
C7_Witness ==
    /\ storeOp.name = "importStructure"
    /\ ~storeShared
    /\ editCount > 0
    /\ \E q \in 1..Len(storeTree.nodes) :
           storeTree.nodes[q].parent # 0 /\ Len(storeTree.nodes[q].children) > 1

-----------------------------------------------------------------------------
(* Session store (unnamed/part_008) and the session file                   *)
(*                                                                         *)
(* A key of a Map and a property name of an object are JavaScript values:  *)
(* [number |-> n] is the number n and [string |-> n] the string of the     *)
(* decimal digits of n.  A Date is [time |-> t] and its ISO string         *)
(* [iso |-> t].  An object is the list of its properties in the order      *)
(* Object.entries lists them.                                              *)

\* Bounds of the session runs
MaxSessions == 2
MaxExports == 1

\* the Map of the aligner with its keys as JavaScript numbers
NumberKeys(map) == [e \in 1..Len(map) |-> [k |-> [number |-> map[e].k], v |-> map[e].v]]

\* what aligner.align returns for a recording that follows the score, at one
\* frame a second
AlignmentData(seq) ==
    [align(seq, seq, [DefaultOptions EXCEPT !.hopSize = 44100])
        EXCEPT !.measureToTime = NumberKeys(@)]

Alignments == {AlignmentData(<<<<0, 0>>>>), AlignmentData(<<<<0, 0>>, <<3, 4>>, <<3, 0>>>>)}

AudioFeatureSets == {[duration |-> 3]}

\* String(key)
PropertyName(key) ==
    [string |-> IF "number" \in DOMAIN key THEN key.number ELSE key.string]

\* obj[name] = value; the names here are all array indices, which an object
\* lists in ascending order whatever the order they were set in
DefineProperty(obj, name, value) ==
    SelectSeq(obj, LAMBDA p : p.k.string < name.string)
    \o <<[k |-> name, v |-> value]>>
    \o SelectSeq(obj, LAMBDA p : p.k.string > name.string)

\* Object.fromEntries of the first e entries of a Map
RECURSIVE ObjectFromEntries(_, _)
ObjectFromEntries(map, e) ==
    IF e = 0 THEN <<>>
    ELSE DefineProperty(ObjectFromEntries(map, e - 1), PropertyName(map[e].k), map[e].v)

\* new Map of the first e of Object.entries(obj): the keys are the property names
RECURSIVE MapOfEntries(_, _)
MapOfEntries(obj, e) ==
    IF e = 0 THEN <<>>
    ELSE MapSet(MapOfEntries(obj, e - 1), obj[e].k, obj[e].v)

exportSession(s) ==
    [sessionId |-> s.sessionId,
     createdAt |-> [iso |-> s.createdAt.time],
     parsedScore |-> s.parsedScore,
     audioFeatures |-> s.audioFeatures,
     alignment |-> IF s.alignment = Null THEN Null
                   ELSE [measureToTime |-> ObjectFromEntries(s.alignment.measureToTime,
                                                             Len(s.alignment.measureToTime)),
                         confidence |-> s.alignment.confidence]]

\* every part is taken only when the data has it
importSession(s, data) ==
    [sessionId |-> IF data.sessionId # "" THEN data.sessionId ELSE s.sessionId,
     createdAt |-> [time |-> data.createdAt.iso],
     parsedScore |-> IF data.parsedScore # Null THEN data.parsedScore ELSE s.parsedScore,
     audioFeatures |-> IF data.audioFeatures # Null THEN data.audioFeatures ELSE s.audioFeatures,
     alignment |-> IF data.alignment # Null
                   THEN [measureToTime |-> MapOfEntries(data.alignment.measureToTime,
                                                        Len(data.alignment.measureToTime)),
                         confidence |-> data.alignment.confidence]
                   ELSE s.alignment,
     analysisComplete |-> TRUE]

SessionCall(name) == [name |-> name, sameAsExported |-> session = sessionAtExport]

\* sessionStore.setParsedScore(parsedScore) of startAnalysis
SetParsedScore ==
    /\ session.parsedScore # parsedScore
    /\ session' = [session EXCEPT !.parsedScore = parsedScore]
    /\ sessOp' = SessionCall("setParsedScore")
    /\ UNCHANGED <<sessionCount, exportedSession, sessionAtExport, exportedFile,
                   structVars, engVars, dtwVars, prefVars>>

SetAudioFeatures ==
    \E features \in AudioFeatureSets :
        /\ session.audioFeatures # features
        /\ session' = [session EXCEPT !.audioFeatures = features]
        /\ sessOp' = SessionCall("setAudioFeatures")
        /\ UNCHANGED <<sessionCount, exportedSession, sessionAtExport, exportedFile,
                       structVars, engVars, dtwVars, prefVars>>

SetAlignment ==
    \E alignmentData \in Alignments :
        /\ session.alignment # alignmentData
        /\ session' = [session EXCEPT !.alignment = alignmentData]
        /\ sessOp' = SessionCall("setAlignment")
        /\ UNCHANGED <<sessionCount, exportedSession, sessionAtExport, exportedFile,
                       structVars, engVars, dtwVars, prefVars>>

SetAnalysisComplete ==
    \E complete \in BOOLEAN :
        /\ session.analysisComplete # complete
        /\ session' = [session EXCEPT !.analysisComplete = complete]
        /\ sessOp' = SessionCall("setAnalysisComplete")
        /\ UNCHANGED <<sessionCount, exportedSession, sessionAtExport, exportedFile,
                       structVars, engVars, dtwVars, prefVars>>

ResetSession ==
    /\ sessionCount < MaxSessions
    /\ sessionCount' = sessionCount + 1
    /\ session' = NewSession(sessionCount + 1)
    /\ sessOp' = SessionCall("resetSession")
    /\ UNCHANGED <<exportedSession, sessionAtExport, exportedFile, structVars, engVars, dtwVars, prefVars>>

\* whether the run has exported as often as it may
ExportsDone == (IF exportedSession = Null THEN 0 ELSE 1) >= MaxExports

ExportSession ==
    /\ ~ExportsDone
    /\ exportedSession' = exportSession(session)
    /\ sessionAtExport' = session
    /\ sessOp' = SessionCall("exportSession")
    /\ UNCHANGED <<session, sessionCount, exportedFile, structVars, engVars, dtwVars, prefVars>>

\* importSession of what exportSession returned
ImportSession ==
    /\ exportedSession # Null
    /\ session' = importSession(session, exportedSession)
    /\ sessOp' = SessionCall("importSession")
    /\ UNCHANGED <<sessionCount, exportedSession, sessionAtExport, exportedFile,
                   structVars, engVars, dtwVars, prefVars>>

\* exportJSON of ScoreDisplay.vue: the file holds the exports of both stores.
\* JSON.stringify and JSON.parse keep the strings, finite numbers, nulls,
\* arrays and plain objects these exports are made of; the visual mappings
\* and the preferences of the file are left out
ExportJSON ==
    /\ ~ExportsDone
    /\ exportedSession' = exportSession(session)
    /\ sessionAtExport' = session
    /\ exportedStructure' = exportStructure(storeTree)
    /\ exportedFrom' = storeTree
    /\ exportedFile' = [version |-> "1.0.0", session |-> exportSession(session),
                        structure |-> exportStructure(storeTree)]
    /\ sessOp' = SessionCall("exportJSON")
    /\ storeOp' = [name |-> "exportStructure"]
    /\ UNCHANGED <<session, sessionCount, storeTree, storeShared, editCount, engVars, dtwVars, prefVars>>

\* importSession(file) of SchemeCard.vue
ImportFile ==
    /\ exportedFile # Null
    /\ session' = importSession(session, exportedFile.session)
    /\ sessOp' = SessionCall("importFile")
    /\ IF exportedFile.structure # Null
       THEN /\ storeTree' = importStructure(storeTree, exportedFile.structure)
            /\ storeShared' = FALSE
            /\ storeOp' = [name |-> "importStructure"]
       ELSE UNCHANGED <<storeTree, storeShared, storeOp>>
    /\ UNCHANGED <<sessionCount, exportedSession, sessionAtExport, exportedFile,
                   exportedStructure, exportedFrom, editCount, engVars, dtwVars, prefVars>>

SessionNext ==
    \/ SetStructureTree
    \/ SetParsedScore
    \/ SetAudioFeatures
    \/ SetAlignment
    \/ SetAnalysisComplete
    \/ ResetSession
    \/ ExportSession
    \/ ImportSession
    \/ ExportJSON
    \/ ImportFile

SpecSession == StoreInit /\ [][SessionNext]_vars

\* what the persisted layout holds of a session
Persisted(s) ==
    [sessionId |-> s.sessionId, createdAt |-> s.createdAt, parsedScore |-> s.parsedScore,
     audioFeatures |-> s.audioFeatures,
     alignment |-> IF s.alignment = Null THEN Null
                   ELSE [measureToTime |-> s.alignment.measureToTime,
                         confidence |-> s.alignment.confidence]]

\* C6: a session that is exported and imported again is the session it was:
\* its id and data, the measure keys and the times of alignment.measureToTime
\* and the confidence of the alignment
C6_SessionRoundTrip ==
    (sessOp.name \in {"importSession", "importFile"} /\ sessOp.sameAsExported)
        => Persisted(session) = Persisted(sessionAtExport)

-----------------------------------------------------------------------------
(* DTWAligner: manual adjustments, the range of the mapping, empty inputs *)

\* an adjustAlignment step taken while an alignment result exists
AdjustStep == adjustCount' = adjustCount + 1 /\ alignmentResult # Null

\* C11: every adjustAlignment call lowers the confidence of the alignment
\* result by 0.05, stopping at 0.5: it never raises the confidence, it takes
\* off exactly 0.05 while that stays at or above 0.5, and it does not take a
\* confidence of 0.5 or more below 0.5.
C11_AdjustDropsConfidence ==
    [][AdjustStep =>
        /\ RLe(alignmentResult'.confidence, alignmentResult.confidence)
        /\ RLe(Rat(1, 2), RSub(alignmentResult.confidence, Rat(1, 20)))
             => alignmentResult'.confidence = RSub(alignmentResult.confidence, Rat(1, 20))
        /\ RLe(Rat(1, 2), alignmentResult.confidence)
             => RLe(Rat(1, 2), alignmentResult'.confidence)]_vars

\* the length of the audio the acoustic chroma frames were taken from
totalAudioDuration == RMul(RInt(Len(acousticChroma)), secondsPerFrame(alignOptions))

\* C12: once align has run, and after any adjustAlignment calls that follow,
\* every timestamp in measureToTime lies between 0 and the audio duration.
C12_TimestampsInRange ==
    alignmentResult # Null =>
        \A e \in 1..Len(dtwMeasureToTime) :
            /\ RLe(RInt(0), dtwMeasureToTime[e].v)
            /\ RLe(dtwMeasureToTime[e].v, totalAudioDuration)

Undefined == [type |-> "undefined"]

MapGet(map, key) ==
    IF MapHas(map, key) THEN (map[CHOOSE e \in 1..Len(map) : map[e].k = key]).v ELSE Undefined

MapKeys(map) == {map[e].k : e \in 1..Len(map)}

Greatest(S) == CHOOSE x \in S : \A y \in S : y <= x

\* getTimestamp without its early return on an empty map: lower and upper
\* are both undefined, and the lookup of undefined gives undefined
getTimestampUnguarded(map, measureNumber) ==
    IF MapHas(map, measureNumber) THEN MapGet(map, measureNumber)
    ELSE IF MapKeys(map) = {} THEN Undefined
    ELSE MapGet(map, Greatest(MapKeys(map)))

\* lower: the greatest key <= measureNumber, the first key when there is none;
\* upper: the least key >= measureNumber below the last key, else the last key
getTimestamp(map, measureNumber) ==
    IF MapHas(map, measureNumber) THEN MapGet(map, measureNumber)
    ELSE IF MapKeys(map) = {} THEN RInt(0)
    ELSE LET measures == MapKeys(map)
             below == {m \in measures : m <= measureNumber}
             above == {m \in measures : m >= measureNumber /\ m < Greatest(measures)}
             lower == IF below = {} THEN Least(measures) ELSE Greatest(below)
             upper == IF above = {} THEN Greatest(measures) ELSE Least(above)
         IN  IF lower = upper THEN MapGet(map, lower)
             ELSE RAdd(MapGet(map, lower),
                       RMul(Rat(measureNumber - lower, upper - lower),
                            RSub(MapGet(map, upper), MapGet(map, lower))))

\* the measures the lookup is asked for
LookupMeasures == 0..(MaxFrames + 1)

\* C14: align on an empty symbolic or acoustic chroma sequence returns a
\* result (no exception) with an empty path and distance Infinity, after
\* which getTimestamp is 0 for every measure.
C14_DegenerateAlignment ==
    (dtwOp = "align" /\ (Len(symbolicChroma) = 0 \/ Len(acousticChroma) = 0))
        => /\ alignmentResult # Null
           /\ alignmentResult.path = <<>>
           /\ alignmentResult.distance = Infinity
           /\ \A m \in LookupMeasures : getTimestamp(dtwMeasureToTime, m) = RInt(0)

C14_Witness ==
    /\ dtwOp = "align"
    /\ Len(symbolicChroma) = 0
    /\ Len(acousticChroma) = MaxFrames
    /\ alignmentResult.path = <<>>
    /\ getTimestamp(dtwMeasureToTime, 1) = RInt(0)

-----------------------------------------------------------------------------
(* RuleEngine: an exception in a leaf detector                             *)
(*                                                                         *)
(* The notes of the parser carry a pitch string or null.  A note list      *)
(* handed to the engine directly can carry any value: a number as pitch    *)
(* (a MIDI number where the pitch string belongs) makes pitch.replace and  *)
(* pitch.match a TypeError.  The engine has no try statement: an exception *)
(* ends every call on the stack, and the outermost call raises it.         *)

Malformed == [number |-> 60]

\* the least number of measures that takes the chunked path: with eight
\* notes in a measure its last measure lies beyond the 500 notes detectMode
\* samples
FailureLength == 2 * maxMeasuresPerChunk

\* the number of lengths of the pieces below
MaxFailureLengths == 2

\* pitch.match(...) on a value that is neither falsy nor a string
pitchToMidiThrows(pitch) == pitch # Null /\ "number" \in DOMAIN pitch

\* note.pitch.replace(...) in countPitchClasses, on each note of the sample
detectModeThrows(notes) == \E i \in 1..Len(notes) : pitchToMidiThrows(notes[i].pitch)

\* the note lists detectMotives collects in a measure, those it saves as
\* motives (two notes or more) and the others
RECURSIVE MotiveGroups(_, _, _, _)
MotiveGroups(beatGroups, beatsPerMeasure, beat, currentMotive) ==
    LET isStrongBeat == beat = 0 \/ (beatsPerMeasure = 4 /\ beat = 2)
        restart == isStrongBeat /\ Len(currentMotive) > 0
    IN  IF beat >= beatsPerMeasure THEN <<currentMotive>>
        ELSE (IF restart THEN <<currentMotive>> ELSE <<>>)
             \o MotiveGroups(beatGroups, beatsPerMeasure, beat + 1,
                             (IF restart THEN <<>> ELSE currentMotive) \o beatGroups[beat])

\* detectMotives raises when extractIntervalPattern or extractContour meets
\* such a pitch in a motive it saves
detectMotivesThrows(notes, timeSignature) ==
    /\ Len(notes) >= 2
    /\ \E measure \in DOMAIN groupNotesByMeasure(notes) :
          LET groups == MotiveGroups(groupNotesByBeat(groupNotesByMeasure(notes)[measure], timeSignature.beats),
                                     timeSignature.beats, 0, <<>>)
          IN  \E g \in 1..Len(groups) :
                  /\ Len(groups[g]) >= 2
                  /\ \E i \in 1..Len(groups[g]) : pitchToMidiThrows(groups[g][i].pitch)

Exception(raisedIn, chunk) == [exception |-> "TypeError", raisedIn |-> raisedIn, chunk |-> chunk]

Raised(result) == "exception" \in DOMAIN result

\* the loop of processInChunks over the chunks calls the processor outside
\* any try: the first chunk whose detection raises ends the loop and the call
FirstThrowingChunk(chunks, timeSignature) ==
    IF \E k \in 1..Len(chunks) : detectMotivesThrows(chunks[k], timeSignature)
    THEN Least({k \in 1..Len(chunks) : detectMotivesThrows(chunks[k], timeSignature)})
    ELSE 0

\* analyzeCompleteChunked and what it raises: detectMode on the first 500
\* notes, then detectMotives chunk by chunk (analyzeComplete: on all notes)
ChunkedOutcome(notes, options, chunks) ==
    IF detectModeThrows(Slice(notes, 0, 500)) THEN Exception("detectMode", 0)
    ELSE IF FirstThrowingChunk(chunks, options.timeSignature) # 0
    THEN Exception("detectMotives", FirstThrowingChunk(chunks, options.timeSignature))
    ELSE ChunkedFromNotes(notes, options, chunks)

analyzeCompleteChunkedOutcome(notes, options) ==
    IF /\ Len(notes) < maxNotesPerChunk * 2
       /\ Cardinality(DOMAIN groupNotesByMeasure(notes)) < maxMeasuresPerChunk * 2
    THEN (IF detectModeThrows(notes) THEN Exception("detectMode", 0)
          ELSE analyzeComplete(notes, options))
    ELSE ChunkedOutcome(notes, options, ChunkNotes(notes))

\* a piece of measures of four two-note chords in quarter notes, the second
\* note of the measure bad with a number as its pitch
ChordNotes(length, bad) ==
    [i \in 1..(8 * length) |->
        [pitch |-> IF (i - 1) \div 8 + 1 = bad /\ (i - 1) % 8 = 1 THEN Malformed
                   ELSE [name |-> IF i % 2 = 1 THEN "C" ELSE "E", octave |-> 4],
         duration |-> 1, measureNumber |-> (i - 1) \div 8 + 1, beat |-> ((i - 1) % 8) \div 2]]

FailureScores ==
    {[measures |-> <<>>, notes |-> ChordNotes(length, bad),
      keySignature |-> [fifths |-> 0, mode |-> "major"],
      timeSignature |-> [beats |-> 4, beatType |-> 4]] :
        length \in FailureLength..(FailureLength + MaxFailureLengths - 1),
        bad \in 1..FailureLength}
    \cup {parse(Document(1, WholeNotes(Drone, 2 * maxMeasuresPerChunk), 4))}

ChunkFailureInit ==
    /\ parsedScore \in FailureScores
    /\ analysis = Null
    /\ chunkedAnalysis = Null
    /\ structureTree = <<>>
    /\ symbolicChroma = <<>> /\ acousticChroma = <<>> /\ alignOptions = Null
    /\ alignmentResult = Null /\ dtwMeasureToTime = <<>> /\ dtwTimeToMeasure = <<>>
    /\ dtwOp = "idle" /\ adjustCount = 0
    /\ examples = <<>> /\ exampleCount = 0 /\ featureWeights = Null /\ now = 0
    /\ prefOp = "idle" /\ prefQuery = Null /\ prefReturned = Null
    /\ storeTree = Null /\ storeShared = FALSE /\ exportedStructure = Null /\ exportedFrom = Null
    /\ storeOp = Null /\ editCount = 0
    /\ session = Null /\ sessionCount = 0 /\ exportedSession = Null /\ sessionAtExport = Null
    /\ sessOp = Null /\ exportedFile = Null

\* a call of analyzeCompleteChunked: chunkedAnalysis is what it returned or
\* the exception it raised
AnalyzeChunkedOutcome ==
    /\ parsedScore # Null
    /\ chunkedAnalysis = Null
    /\ chunkedAnalysis' = analyzeCompleteChunkedOutcome(parsedScore.notes, Options(parsedScore))
    /\ UNCHANGED <<parsedScore, analysis, structureTree, dtwVars, prefVars, storeVars>>

SpecChunkFailure == ChunkFailureInit /\ [][AnalyzeChunkedOutcome]_vars

\* C13: when motive or sub-phrase detection raises an error on one chunk,
\* analyzeCompleteChunked still returns an analysis: the chunk is skipped and
\* the cadences, phrases, periods and form are detected all the same.
C13_ChunkFailureSkipped ==
    chunkedAnalysis # Null =>
        ~(Raised(chunkedAnalysis) /\ chunkedAnalysis.raisedIn \in {"detectMotives", "detectSubPhrases"})

-----------------------------------------------------------------------------
(* The recommender of RecommendationPanel.vue across reset and export      *)
(*                                                                         *)
(* App.vue keeps the panel mounted (v-show), so its VisualSchemeRecommender *)
(* and the PreferenceManager in it live as long as the application.        *)

\* the application with its stores and the recommender as constructed
LifecycleInit ==
    /\ parsedScore \in {parse(doc) : doc \in StoreDocuments}
    /\ structureTree = buildHierarchy(parsedScore)
    /\ analysis = Null
    /\ chunkedAnalysis = Null
    /\ storeTree = Null
    /\ storeShared = FALSE
    /\ exportedStructure = Null
    /\ exportedFrom = Null
    /\ storeOp = [name |-> "constructor"]
    /\ editCount = 0
    /\ session = NewSession(1)
    /\ sessionCount = 1
    /\ exportedSession = Null
    /\ sessionAtExport = Null
    /\ sessOp = [name |-> "constructor"]
    /\ exportedFile = Null
    /\ symbolicChroma = <<>> /\ acousticChroma = <<>> /\ alignOptions = Null
    /\ alignmentResult = Null /\ dtwMeasureToTime = <<>> /\ dtwTimeToMeasure = <<>>
    /\ dtwOp = "idle" /\ adjustCount = 0
    /\ examples = <<>>
    /\ exampleCount = 0
    /\ featureWeights = InitialFeatureWeights
    /\ now = 0
    /\ prefOp = "constructor"
    /\ prefQuery = Null
    /\ prefReturned = Null

\* clearFiles of SchemeCard.vue: sessionStore.resetSession() and
\* structureStore.reset(); the two file refs are not kept
ClearFiles ==
    /\ sessionCount < MaxSessions
    /\ sessionCount' = sessionCount + 1
    /\ session' = NewSession(sessionCount + 1)
    /\ sessOp' = SessionCall("clearFiles")
    /\ storeTree' = Null
    /\ storeShared' = FALSE
    /\ storeOp' = [name |-> "reset"]
    /\ UNCHANGED <<exportedSession, sessionAtExport, exportedFile, exportedStructure, exportedFrom,
                   editCount, engVars, dtwVars, prefVars>>

LifecycleNext ==
    \/ SetStructureTree
    \/ RecordAny
    \/ ClearFiles
    \/ ExportJSON

SpecLifecycle == LifecycleInit /\ [][LifecycleNext]_vars

\* C15: a session reset (clearFiles) and an export (exportJSON) leave the
\* recommender without preference examples.
C15_BufferCleared ==
    [][(sessionCount' = sessionCount + 1 \/ (exportedFile = Null /\ exportedFile' # Null))
          => examples' = <<>> /\ exampleCount' = 0]_vars

-----------------------------------------------------------------------------
(* VisualSchemeRecommender.recommend (unnamed/part_007)                    *)
(*                                                                         *)
(* A scheme is kept with its shapes, colours, animation and arrangement;   *)
(* generateId draws a random id: the ids of one call are vs-1, vs-2, ...   *)
(* The audio features of the options are not passed by the panel and are   *)
(* left out.                                                               *)

EMOTION_MAPPINGS ==
    [tempo |-> [fast |-> [animations |-> <<"flash", "bounce", "spin">>, colors |-> "warm"],
                moderate |-> [animations |-> <<"pulse", "wave", "slide">>, colors |-> "mixed"],
                slow |-> [animations |-> <<"fade", "grow", "rotate">>, colors |-> "cool"]],
     dynamics |-> [strong |-> [shapes |-> <<"star5", "burst", "sun">>, sizes |-> "large"],
                   moderate |-> [shapes |-> <<"hexagon", "diamond", "octagon">>, sizes |-> "medium"],
                   soft |-> [shapes |-> <<"circle", "wave", "flower">>, sizes |-> "small"]],
     tension |-> [tense |-> [colors |-> <<"#FF5252", "#FF7043", "#FF6B6B">>, animations |-> <<"shake", "flash">>],
                  neutral |-> [colors |-> <<"#FFD93D", "#FFAB40", "#FFA07A">>, animations |-> <<"pulse", "wave">>],
                  relaxed |-> [colors |-> <<"#4D96FF", "#6BCB77", "#1ABC9C">>, animations |-> <<"fade", "grow">>]]]

COLOR_PALETTE ==
    [warm |-> <<"#FF6B6B", "#FFA07A", "#FFD93D", "#FF8C42", "#FF5252", "#FF7043", "#FFAB40", "#FFD740">>,
     cool |-> <<"#6BCB77", "#4D96FF", "#9B59B6", "#3498DB", "#1ABC9C", "#00BCD4", "#7E57C2", "#5C6BC0">>]

ANIMATIONS == <<"flash", "rotate", "bounce", "pulse", "slide", "fade", "shake", "grow", "spin", "wave">>

\* node.features?.cadence, Null when absent
NodeFeature(node, field) ==
    IF "features" \in DOMAIN node
    THEN (IF field \in DOMAIN node.features THEN node.features[field] ELSE Null)
    ELSE Null

\* the features of the nodes of the runs carry neither periodType nor closure
extractNodeFeatures(node) ==
    [type |-> node.type, startMeasure |-> node.startMeasure, endMeasure |-> node.endMeasure,
     material |-> node.material, confidence |-> node.confidence,
     cadence |-> NodeFeature(node, "cadence")]

extractEmotionFeatures(node) ==
    LET duration == node.endMeasure - node.startMeasure + 1
        children == Len(node.children)
        levelDynamics == [motive |-> "soft", subphrase |-> "soft", phrase |-> "moderate",
                          period |-> "moderate", theme |-> "strong", section |-> "strong"]
        cadence == NodeFeature(node, "cadence")
        hasClosure == "features" \in DOMAIN node /\ "closure" \in DOMAIN node.features
        byCadence == IF cadence = Null THEN "neutral"
                     ELSE IF cadence.type = "perfect_authentic" THEN "relaxed"
                     ELSE IF cadence.type \in {"half", "deceptive"} THEN "tense"
                     ELSE "neutral"
    IN  [tempo |-> IF children > 0 /\ children > 2 * duration THEN "fast"
                   ELSE IF children > 0 /\ 2 * children < duration THEN "slow"
                   ELSE "moderate",
         dynamics |-> IF node.type \in DOMAIN levelDynamics THEN levelDynamics[node.type] ELSE "moderate",
         tension |-> IF hasClosure /\ node.features.closure = "open" THEN "tense"
                     ELSE IF hasClosure /\ node.features.closure = "closed" THEN "relaxed"
                     ELSE byCadence]

getShapeCount(features) ==
    LET duration == features.endMeasure - features.startMeasure + 1
    IN  IF duration <= 2 THEN 1 ELSE IF duration <= 4 THEN 2 ELSE IF duration <= 8 THEN 3 ELSE 4

getShapeSize(features) ==
    LET sizeMap == [motive |-> "small", subphrase |-> "small", phrase |-> "medium",
                    period |-> "medium", theme |-> "large", section |-> "large"]
    IN  IF features.type \in DOMAIN sizeMap THEN sizeMap[features.type] ELSE "medium"

\* the emotion features always name a row of the dynamics table
selectShapes(features, variant, emotionFeatures) ==
    LET preferredShapes == EMOTION_MAPPINGS.dynamics[emotionFeatures.dynamics].shapes
        dynamicsSize == EMOTION_MAPPINGS.dynamics[emotionFeatures.dynamics].sizes
    IN  [i \in 1..getShapeCount(features) |->
            [type |-> preferredShapes[((variant + i - 1) % Len(preferredShapes)) + 1],
             size |-> dynamicsSize]]

selectColors(features, variant, emotionFeatures) ==
    LET count == IF getShapeCount(features) < 3 THEN getShapeCount(features) ELSE 3
        tensionColors == EMOTION_MAPPINGS.tension[emotionFeatures.tension].colors
        isStable == features.cadence # Null /\ features.cadence.type = "perfect_authentic"
        tempoMapping == EMOTION_MAPPINGS.tempo[emotionFeatures.tempo].colors
        palette == IF tempoMapping = "warm" THEN COLOR_PALETTE.warm
                   ELSE IF tempoMapping = "cool" THEN COLOR_PALETTE.cool
                   ELSE IF isStable THEN COLOR_PALETTE.warm ELSE COLOR_PALETTE.cool
    IN  IF variant = 0 THEN SubSeq(tensionColors, 1, count)
        ELSE [i \in 1..count |-> palette[((variant + i - 1) % Len(palette)) + 1]]

selectAnimation(features, variant, emotionFeatures) ==
    LET tempoAnimations == EMOTION_MAPPINGS.tempo[emotionFeatures.tempo].animations
        tensionAnimations == EMOTION_MAPPINGS.tension[emotionFeatures.tension].animations
        typeAnimationMap == [motive |-> <<"flash", "pulse", "bounce">>,
                             subphrase |-> <<"slide", "fade", "pulse">>,
                             phrase |-> <<"wave", "grow", "slide">>,
                             period |-> <<"rotate", "spin", "wave">>,
                             theme |-> <<"grow", "spin", "bounce">>,
                             section |-> <<"fade", "wave", "rotate">>]
        preferredAnimations ==
            IF variant < Len(tempoAnimations) THEN tempoAnimations
            ELSE IF variant < Len(tensionAnimations) THEN tensionAnimations
            ELSE IF features.type \in DOMAIN typeAnimationMap THEN typeAnimationMap[features.type]
            ELSE ANIMATIONS
    IN  preferredAnimations[(variant % Len(preferredAnimations)) + 1]

selectArrangement(features) ==
    LET duration == features.endMeasure - features.startMeasure + 1
    IN  IF duration <= 2 THEN "single" ELSE IF duration <= 8 THEN "sequence" ELSE "grid"

\* the loop runs for i = 0 .. count - 1: no scheme for a count of 0 or less
generateBaseSchemes(node, count, emotionFeatures) ==
    IF count <= 0 THEN <<>>
    ELSE [k \in 1..count |->
            [id |-> "vs-" \o ToString(k),
             shapes |-> selectShapes(extractNodeFeatures(node), k - 1, emotionFeatures),
             colors |-> selectColors(extractNodeFeatures(node), k - 1, emotionFeatures),
             animation |-> selectAnimation(extractNodeFeatures(node), k - 1, emotionFeatures),
             arrangement |-> selectArrangement(extractNodeFeatures(node)),
             relationship |-> "", fromPreference |-> FALSE]]

\* 'a' is letter 0; material is kept as its characters
LetterIndex(c) == CHOOSE i \in 0..25 : SmallLetters[i + 1] = c

applyColorLogic(scheme, node, relatedNodes) ==
    LET similar == \E n \in 1..Len(relatedNodes) :
                       /\ relatedNodes[n].material # <<>> /\ node.material # <<>>
                       /\ relatedNodes[n].material[1] = node.material[1]
        contrasting == \E n \in 1..Len(relatedNodes) :
                       /\ relatedNodes[n].material # <<>> /\ node.material # <<>>
                       /\ relatedNodes[n].material[1] # node.material[1]
        mapped == IF similar
                  THEN [scheme EXCEPT !.colors = [i \in 1..Len(scheme.colors) |->
                                                     COLOR_PALETTE.warm[((i - 1) % 8) + 1]],
                                      !.relationship = "similar"]
                  ELSE IF contrasting
                  THEN [scheme EXCEPT !.colors = [i \in 1..Len(scheme.colors) |->
                                                     COLOR_PALETTE.cool[((i - 1) % 8) + 1]],
                                      !.relationship = "contrasting"]
                  ELSE scheme
    IN  IF \E c \in 1..Len(node.material) : node.material[c] = "'"
        THEN [mapped EXCEPT !.colors = [i \in 1..Len(mapped.colors) |->
                                           IF i = 1 THEN COLOR_PALETTE.warm[(LetterIndex(node.material[1]) % 8) + 1]
                                           ELSE mapped.colors[i]],
                            !.relationship = "recapitulated"]
        ELSE mapped

\* Math.random() of the three draws of generateRandomScheme, as the index
\* Math.floor(random * length) it gives in a list of the given length
RandomIndex(random, length) == RFloor(RMul(random, RInt(length))) + 1

generateRandomScheme(node, emotionFeatures, draws, k) ==
    LET dynamicsShapes == EMOTION_MAPPINGS.dynamics[emotionFeatures.dynamics].shapes
        tempoAnimations == EMOTION_MAPPINGS.tempo[emotionFeatures.tempo].animations
        tensionColors == EMOTION_MAPPINGS.tension[emotionFeatures.tension].colors
    IN  [id |-> "vs-" \o ToString(k),
         shapes |-> <<[type |-> dynamicsShapes[RandomIndex(draws[1], Len(dynamicsShapes))],
                       size |-> getShapeSize(extractNodeFeatures(node))]>>,
         colors |-> <<tensionColors[RandomIndex(draws[2], Len(tensionColors))]>>,
         animation |-> tempoAnimations[RandomIndex(draws[3], Len(tempoAnimations))],
         arrangement |-> "single", relationship |-> "", fromPreference |-> FALSE]

\* a scheme of preferenceManager.getRecommendations, spread into one object
PreferenceScheme(item) ==
    [id |-> item.scheme.id, shapes |-> item.scheme.shapes, colors |-> item.scheme.colors,
     animation |-> item.scheme.animation, arrangement |-> "", relationship |-> "",
     fromPreference |-> TRUE]

RECURSIVE deduplicateSchemes(_)
deduplicateSchemes(schemes) ==
    IF schemes = <<>> THEN <<>>
    ELSE LET front == deduplicateSchemes(SubSeq(schemes, 1, Len(schemes) - 1))
             last == schemes[Len(schemes)]
         IN  IF \E i \in 1..Len(front) : SchemeKey(front[i]) = SchemeKey(last) THEN front
             ELSE Append(front, last)

Max(a, b) == IF a < b THEN b ELSE a

\* the while loop: random schemes are pushed until max(3, count) are there
PadSchemes(uniqueSchemes, node, count, emotionFeatures, draws) ==
    IF Len(uniqueSchemes) >= Max(3, count) THEN uniqueSchemes
    ELSE uniqueSchemes \o
         [k \in 1..(Max(3, count) - Len(uniqueSchemes)) |->
             generateRandomScheme(node, emotionFeatures, draws, count + k)]

\* slice(0, count), for a count of 0 or more
RecommendFrom(preferenceSchemes, coloredSchemes, node, count, emotionFeatures, draws) ==
    LET padded == PadSchemes(TakeFirst(deduplicateSchemes(preferenceSchemes \o coloredSchemes), count),
                             node, count, emotionFeatures, draws)
    IN  [i \in 1..Len(padded) |->
            [scheme |-> padded[i], emotionFeatures |-> emotionFeatures,
             recommendationSource |-> IF padded[i].fromPreference THEN "preference_learning"
                                      ELSE "rule_based"]]

ColoredSchemes(baseSchemes, node, relatedNodes) ==
    [k \in 1..Len(baseSchemes) |-> applyColorLogic(baseSchemes[k], node, relatedNodes)]

PreferenceSchemes(items) == [i \in 1..Len(items) |-> PreferenceScheme(items[i])]

recommend(exs, w, currentTime, node, count, relatedNodes, draws) ==
    RecommendFrom(PreferenceSchemes(getRecommendations(exs, w, extractNodeFeatures(node), count, currentTime)),
                  ColoredSchemes(generateBaseSchemes(node, count, extractEmotionFeatures(node)),
                                 node, relatedNodes),
                  node, count, extractEmotionFeatures(node), draws)

\* the nodes the panel asks recommendations for: their features are FeatureA
\* and FeatureB
NodeA ==
    [type |-> "phrase", startMeasure |-> 1, endMeasure |-> 4, material |-> <<"a">>,
     confidence |-> Rat(8, 10), children |-> <<>>,
     features |-> [cadence |-> [type |-> "perfect_authentic"]]]
NodeB ==
    [type |-> "phrase", startMeasure |-> 1, endMeasure |-> 16, material |-> <<"a">>,
     confidence |-> Rat(8, 10), children |-> <<>>,
     features |-> [cadence |-> [type |-> "half"]]]
NodeSet == {NodeA, NodeB}

\* the counts asked for: the panel asks for 5
MaxCount == 6
CountSet == {0, 1, 5, MaxCount}

RelatedSet == {<<>>, <<[material |-> <<"a">>]>>, <<[material |-> <<"b">>]>>}

\* the draws of Math.random() of one call: all three the same
DrawSet == {<<Rat(0, 1), Rat(0, 1), Rat(0, 1)>>, <<Rat(1, 2), Rat(1, 2), Rat(1, 2)>>}

\* a query changes nothing the manager keeps: a query right after a query is left out
Recommend(node, count, relatedNodes, draws) ==
    /\ prefOp # "recommend"
    /\ prefOp' = "recommend"
    /\ prefQuery' = [node |-> node, count |-> count]
    /\ prefReturned' = recommend(examples, featureWeights, now, node, count, relatedNodes, draws)
    /\ UNCHANGED <<examples, exampleCount, featureWeights, now, dtwVars, engVars, storeVars>>

RecommendAny ==
    \E node \in NodeSet, count \in CountSet, relatedNodes \in RelatedSet, draws \in DrawSet :
        Recommend(node, count, relatedNodes, draws)

RecommendNext == RecordAny \/ RecommendAny

SpecRecommend == PrefInit /\ [][RecommendNext]_vars

\* C16: recommend returns at least 3 and at most 5 schemes, whatever count is
\* asked for and whatever the preference buffer holds.
C16_ThreeToFive ==
    prefOp = "recommend" => Len(prefReturned) >= 3 /\ Len(prefReturned) <= 5

\* ---------------------------------------------------------------------------
\* The form classifier on its own: detectForm and the popular-form probe applied
\* to lists of periods (unnamed/part_005, detectForm and the form stage of
\* analyzeComplete and analyzeCompleteChunked)

\* the values of the FormTypes enumeration
FormTypes ==
    {"one_part", "binary_parallel", "binary_rounded", "ternary_simple", "ternary_parallel",
     "ternary_compound", "rondo", "variation", "sonata", "sonata_rondo", "fugue",
     "verse_chorus", "aaba", "strophic"}

MaxPeriods == 5

PeriodMeasures == 8

\* the melodies a period is played to, one note to the measure: a scale in
\* whole notes, octave leaps in quarter notes, fifths in whole notes, and the
\* scale in half notes
Melodies == {"scale", "leaps", "fifths", "halves"}

MelodyNote(melody, i) ==
    LET scale == <<"C", "D", "E", "F", "G", "A", "B">>
        Step(k) == scale[((k - 1) % 7) + 1]
        Octave(k) == 4 + ((k - 1) \div 7)
    IN  CASE melody = "scale" -> [name |-> Step(i), octave |-> Octave(i), duration |-> 4]
          [] melody = "halves" -> [name |-> Step(i), octave |-> Octave(i), duration |-> 2]
          [] melody = "leaps" -> [name |-> "C", octave |-> IF i % 2 = 1 THEN 4 ELSE 5, duration |-> 1]
          [] OTHER -> [name |-> IF i % 2 = 1 THEN "C" ELSE "G", octave |-> 4, duration |-> 4]

\* the notes of period k (from 0) of a piece of eight-measure periods, as the
\* parser hands them on
PeriodNotes(melody, k) ==
    [i \in 1..PeriodMeasures |->
        LET note == MelodyNote(melody, i)
        IN  [pitch |-> [name |-> note.name, octave |-> note.octave], duration |-> note.duration,
             measureNumber |-> k * PeriodMeasures + i, beat |-> 0]]

\* how the periods of a piece relate their notes to their material: each
\* material to its own melody, or the first period to the scale and every later
\* one to the same other melody
Renditions == {"faithful", "leaps", "fifths", "halves"}

MelodyOf(rendition, material, k) ==
    IF rendition = "faithful"
    THEN (CASE material = "a" -> "scale" [] material = "b" -> "leaps" [] OTHER -> "fifths")
    ELSE IF k = 0 THEN "scale" ELSE rendition

\* period k (from 0): an antecedent on a half cadence and a consequent on a
\* perfect authentic one, four measures each, both of the given material
FormPeriod(rendition, material, k) ==
    LET notes == PeriodNotes(MelodyOf(rendition, material, k), k)
        first == k * PeriodMeasures + 1
        middle == first + (PeriodMeasures \div 2) - 1
        last == first + PeriodMeasures - 1
        half == [measureNumber |-> middle, beat |-> 0, type |-> "half", strength |-> "weak",
                 confidence |-> Rat(8, 10)]
        full == [measureNumber |-> last, beat |-> 0, type |-> "perfect_authentic",
                 strength |-> "strong", confidence |-> Rat(95, 100)]
    IN  createPeriod(<<[material |-> <<material>>] @@ Phrase(notes, <<>>, 2 * k, first, middle, half, FALSE),
                       [material |-> <<material, "'">>]
                           @@ Phrase(notes, <<>>, 2 * k + 1, middle + 1, last, full, FALSE)>>, k)

FormPeriods(rendition, materials) ==
    [i \in 1..Len(materials) |-> FormPeriod(rendition, materials[i], i - 1)]

MaterialLetters == {"a", "b", "c"}

RECURSIVE MaterialLists(_)
MaterialLists(n) ==
    IF n = 0 THEN {<<>>}
    ELSE LET shorter == MaterialLists(n - 1)
         IN  shorter \cup {Append(ms, m) : ms \in {l \in shorter : Len(l) = n - 1}, m \in MaterialLetters}

\* the periods are there, the form is not yet
FormInit ==
    /\ analysis \in {[periods |-> FormPeriods(rendition, materials), call |-> "detectPeriods",
                      formAnalysis |-> Null] :
                         rendition \in Renditions, materials \in MaterialLists(MaxPeriods)}
    /\ parsedScore = Null
    /\ chunkedAnalysis = Null
    /\ structureTree = <<>>
    /\ symbolicChroma = <<>> /\ acousticChroma = <<>> /\ alignOptions = Null
    /\ alignmentResult = Null /\ dtwMeasureToTime = <<>> /\ dtwTimeToMeasure = <<>>
    /\ dtwOp = "idle" /\ adjustCount = 0
    /\ examples = <<>> /\ exampleCount = 0 /\ featureWeights = Null /\ now = 0
    /\ prefOp = "idle" /\ prefQuery = Null /\ prefReturned = Null
    /\ storeTree = Null /\ storeShared = FALSE /\ exportedStructure = Null /\ exportedFrom = Null
    /\ storeOp = Null /\ editCount = 0
    /\ session = Null /\ sessionCount = 0 /\ exportedSession = Null /\ sessionAtExport = Null
    /\ sessOp = Null /\ exportedFile = Null

FormResult(periods, call, formAnalysis) ==
    [periods |-> periods, call |-> call, formAnalysis |-> formAnalysis]

\* a call of detectForm on the periods
DetectForm ==
    /\ analysis.call = "detectPeriods"
    /\ analysis' = FormResult(analysis.periods, "detectForm", detectForm(analysis.periods))
    /\ UNCHANGED <<parsedScore, chunkedAnalysis, structureTree, dtwVars, prefVars, storeVars>>

\* the form stage of analyzeComplete and of analyzeCompleteChunked: detectForm,
\* then the popular form in its place when that is the more confident one
AnalyzeForm ==
    /\ analysis.call = "detectPeriods"
    /\ analysis' = FormResult(analysis.periods, "analyzeComplete", MergedForm(analysis.periods))
    /\ UNCHANGED <<parsedScore, chunkedAnalysis, structureTree, dtwVars, prefVars, storeVars>>

FormNext == DetectForm \/ AnalyzeForm

SpecForm == FormInit /\ [][FormNext]_vars

\* the periods carry the material pattern a a b a
IsAABA(periods) ==
    /\ Len(periods) = 4
    /\ analyzeMaterialPattern(periods).materials = <<"a", "a", "b", "a">>

C18_FormTypeInEnum ==
    analysis.formAnalysis # Null => analysis.formAnalysis.formType \in FormTypes

\* ---------------------------------------------------------------------------
\* detectCadences on its own, over notes whose measures come in any order
\* (unnamed/part_005, detectCadences)

MaxNotes == 3

MaxMeasureNumber == 3

\* tonic, subdominant and dominant of C
CadenceNames == {"C", "F", "G"}

\* a whole note; measure number 0 is the note without one
CadenceNote(name, measureNumber) ==
    [pitch |-> [name |-> name, octave |-> 3], duration |-> 4, measureNumber |-> measureNumber,
     beat |-> 0]

RECURSIVE NoteLists(_)
NoteLists(n) ==
    IF n = 0 THEN {<<>>}
    ELSE LET shorter == NoteLists(n - 1)
         IN  shorter \cup {Append(notes, CadenceNote(name, measureNumber)) :
                              notes \in {l \in shorter : Len(l) = n - 1},
                              name \in CadenceNames, measureNumber \in 0..MaxMeasureNumber}

CadencesInit ==
    /\ parsedScore \in {[notes |-> notes, keySignature |-> [fifths |-> 0, mode |-> mode]] :
                           notes \in NoteLists(MaxNotes), mode \in {"major", "minor"}}
    /\ analysis = Null
    /\ chunkedAnalysis = Null
    /\ structureTree = <<>>
    /\ symbolicChroma = <<>> /\ acousticChroma = <<>> /\ alignOptions = Null
    /\ alignmentResult = Null /\ dtwMeasureToTime = <<>> /\ dtwTimeToMeasure = <<>>
    /\ dtwOp = "idle" /\ adjustCount = 0
    /\ examples = <<>> /\ exampleCount = 0 /\ featureWeights = Null /\ now = 0
    /\ prefOp = "idle" /\ prefQuery = Null /\ prefReturned = Null
    /\ storeTree = Null /\ storeShared = FALSE /\ exportedStructure = Null /\ exportedFrom = Null
    /\ storeOp = Null /\ editCount = 0
    /\ session = Null /\ sessionCount = 0 /\ exportedSession = Null /\ sessionAtExport = Null
    /\ sessOp = Null /\ exportedFile = Null

\* a call of detectCadences on the notes and the key of the score
DetectCadences ==
    /\ analysis = Null
    /\ analysis' = [cadences |-> detectCadences(parsedScore.notes, parsedScore.keySignature)]
    /\ UNCHANGED <<parsedScore, chunkedAnalysis, structureTree, dtwVars, prefVars, storeVars>>

SpecCadences == CadencesInit /\ [][DetectCadences]_vars

\* C20: the list detectCadences returns is in ascending order of measure, and
\* no two of its cadences share a measure
C20_CadencesSorted ==
    analysis # Null
        => \A i, j \in 1..Len(analysis.cadences) :
               i < j => analysis.cadences[i].measureNumber < analysis.cadences[j].measureNumber

\* two cadences found among notes whose measures do not come in ascending order
C20_Witness ==
    /\ analysis # Null
    /\ Len(analysis.cadences) >= 2
    /\ \E i \in 1..(Len(parsedScore.notes) - 1) :
           MeasureOf(parsedScore.notes[i + 1]) < MeasureOf(parsedScore.notes[i])

\* ---------------------------------------------------------------------------
\* The leaf items of the chunked analysis against those of the whole one

\* the first and the last measure of every chunk of the notes
ChunkBoundaries(notes) ==
    {ChunkStart(notes, k) : k \in 1..ChunkCount(notes)}
        \cup {ChunkEnd(notes, k) : k \in 1..ChunkCount(notes)}

\* the items at least overlapMeasures / 2 measures away from every chunk
\* boundary
AwayFromBoundaries(items, notes) ==
    SelectSeq(items, LAMBDA item :
        \A boundary \in ChunkBoundaries(notes) :
            2 * Abs(ItemMeasure(item) - boundary) >= overlapMeasures)

\* C19: for every score that takes the chunked path, the motives and the
\* sub-phrases of analyzeCompleteChunked are those of analyzeComplete on all
\* items at least overlapMeasures / 2 measures away from the chunk boundaries
C19_LeafInvariance ==
    (analysis # Null /\ chunkedAnalysis # Null /\ chunkedAnalysis.processingInfo.chunked)
        => /\ AwayFromBoundaries(chunkedAnalysis.motives, parsedScore.notes)
                  = AwayFromBoundaries(analysis.motives, parsedScore.notes)
           /\ AwayFromBoundaries(chunkedAnalysis.subPhrases, parsedScore.notes)
                  = AwayFromBoundaries(analysis.subPhrases, parsedScore.notes)

\* the number of the items that start in the measure
ItemsAt(items, measure) == Len(SelectSeq(items, LAMBDA item : ItemMeasure(item) = measure))

\* C22: in the merged motive and sub-phrase lists of the chunked driver the
\* items of every measure come from exactly one chunk: each measure has as many
\* items as one detection of it yields, none twice and none lost
C22_MergeDeduplicates ==
    (analysis # Null /\ chunkedAnalysis # Null /\ chunkedAnalysis.processingInfo.chunked)
        => \A measure \in DOMAIN groupNotesByMeasure(parsedScore.notes) :
               /\ ItemsAt(chunkedAnalysis.motives, measure) = ItemsAt(analysis.motives, measure)
               /\ ItemsAt(chunkedAnalysis.subPhrases, measure) = ItemsAt(analysis.subPhrases, measure)

\* ---------------------------------------------------------------------------
\* getConfidenceVisualStyle on its own, over pairs of confidences
\* (unnamed/part_005, getConfidenceVisualStyle)

ConfidenceSteps == 20

\* the confidences k / ConfidenceSteps, some of them below 0 and above 1
Confidences == {Rat(k, ConfidenceSteps) : k \in -2..(ConfidenceSteps + 2)}

StyleInit ==
    /\ analysis \in {[confidences |-> <<lower, higher>>, visualStyles |-> <<>>] :
                        lower \in Confidences, higher \in Confidences}
    /\ parsedScore = Null
    /\ chunkedAnalysis = Null
    /\ structureTree = <<>>
    /\ symbolicChroma = <<>> /\ acousticChroma = <<>> /\ alignOptions = Null
    /\ alignmentResult = Null /\ dtwMeasureToTime = <<>> /\ dtwTimeToMeasure = <<>>
    /\ dtwOp = "idle" /\ adjustCount = 0
    /\ examples = <<>> /\ exampleCount = 0 /\ featureWeights = Null /\ now = 0
    /\ prefOp = "idle" /\ prefQuery = Null /\ prefReturned = Null
    /\ storeTree = Null /\ storeShared = FALSE /\ exportedStructure = Null /\ exportedFrom = Null
    /\ storeOp = Null /\ editCount = 0
    /\ session = Null /\ sessionCount = 0 /\ exportedSession = Null /\ sessionAtExport = Null
    /\ sessOp = Null /\ exportedFile = Null

\* a call of getConfidenceVisualStyle for each of the two confidences
GetConfidenceVisualStyle ==
    /\ analysis.visualStyles = <<>>
    /\ analysis' = [analysis EXCEPT !.visualStyles =
                       [i \in 1..2 |-> getConfidenceVisualStyle(analysis.confidences[i])]]
    /\ UNCHANGED <<parsedScore, chunkedAnalysis, structureTree, dtwVars, prefVars, storeVars>>

SpecStyle == StyleInit /\ [][GetConfidenceVisualStyle]_vars

\* low < medium < high < very_high
UncertaintyRank(uncertaintyLevel) ==
    CASE uncertaintyLevel = "low" -> 0 [] uncertaintyLevel = "medium" -> 1
      [] uncertaintyLevel = "high" -> 2 [] uncertaintyLevel = "very_high" -> 3

\* C21: of two confidences the lower one is assigned an uncertaintyLevel at
\* least that of the higher one, in the order low < medium < high < very_high,
\* and an opacity no greater than that of the higher one
C21_StyleMonotone ==
    (analysis.visualStyles # <<>> /\ RLt(analysis.confidences[1], analysis.confidences[2]))
        => /\ UncertaintyRank(analysis.visualStyles[1].uncertaintyLevel)
                  >= UncertaintyRank(analysis.visualStyles[2].uncertaintyLevel)
           /\ RLe(analysis.visualStyles[1].opacity, analysis.visualStyles[2].opacity)

\* two confidences on either side of a threshold, styled differently
C21_Witness ==
    /\ analysis.visualStyles # <<>>
    /\ RLt(analysis.confidences[1], analysis.confidences[2])
    /\ analysis.visualStyles[1].uncertaintyLevel = "high"
    /\ analysis.visualStyles[2].uncertaintyLevel = "medium"
    /\ RLt(analysis.visualStyles[1].opacity, analysis.visualStyles[2].opacity)

\* ---------------------------------------------------------------------------
\* The confidences and the styles of the nodes of the tree

\* the analysis buildHierarchy builds the tree of the score from
HierarchyAnalysis(score) ==
    IF Len(score.notes) > 1000 \/ Len(score.measures) > 64 THEN chunkedAnalysis ELSE analysis

\* the confidence buildTree and its helpers create a node with: the form's for
\* a section of the form, a constant of its type for every other node
DetectionConfidence(node, formAnalysis) ==
    CASE node.type = "section" -> Rat(8, 10)
      [] node.type = "theme" -> formAnalysis.confidence
      [] node.type = "period" -> Rat(75, 100)
      [] node.type = "phrase" -> (IF node.cadence # Null THEN Rat(8, 10) ELSE Rat(6, 10))
      [] node.type = "subphrase" -> Rat(65, 100)
      [] node.type = "motive" -> Rat(6, 10)

RECURSIVE SumConfidence(_, _, _)
SumConfidence(nodes, children, k) ==
    IF k > Len(children) THEN RInt(0)
    ELSE RAdd(nodes[children[k]].confidence, SumConfidence(nodes, children, k + 1))

\* what a node with children gets when its own detection confidence is
\* averaged with the mean of the confidences its children have in the tree
PropagatedConfidence(nodes, formAnalysis, i) ==
    LET detected == DetectionConfidence(nodes[i], formAnalysis)
        own == IF detected.n = 0 THEN Rat(5, 10) ELSE detected
        mean == RDiv(SumConfidence(nodes, nodes[i].children, 1), RInt(Len(nodes[i].children)))
        averaged == RDiv(RAdd(own, mean), RInt(2))
        adjusted == IF nodes[i].cadence # Null THEN RAdd(averaged, Rat(1, 10)) ELSE averaged
    IN  RMin(RInt(1), RMax(RInt(0), adjusted))

ConfidencesPropagated(nodes, formAnalysis) ==
    \A i \in 1..Len(nodes) :
        Len(nodes[i].children) > 0 => nodes[i].confidence = PropagatedConfidence(nodes, formAnalysis, i)

\* C23: after buildHierarchy every node with children has the confidence
\* (its detection confidence + the mean of the confidences its children have
\* after their own propagation) / 2, plus 0.1 if it has a cadence, clamped to
\* [0, 1]
C23_PostOrderConfidence ==
    (structureTree # <<>> /\ HierarchyAnalysis(parsedScore) # Null)
        => ConfidencesPropagated(structureTree, HierarchyAnalysis(parsedScore).form)

\* ---------------------------------------------------------------------------
\* Editing a tree that was imported from a file (src/App.vue, importStructure
\* and the editing methods; unnamed/part_006, the editing methods)

\* the confidences a structure file may give its nodes
FileConfidences == {Rat(k, ConfidenceSteps) : k \in 0..ConfidenceSteps}

\* a structure file: the export of a tree whose nodes all have the confidence
\* and its visual style
StructureFile(nodes, confidence) ==
    exportStructure([root |-> 1,
                     nodes |-> [p \in 1..Len(nodes) |->
                                   [nodes[p] EXCEPT !.confidence = confidence,
                                                    !.visualStyle = getConfidenceVisualStyle(confidence)]]])

\* the application after a score was parsed, its hierarchy built and a
\* structure file imported into the store
EditingInit ==
    /\ parsedScore \in {parse(doc) : doc \in StoreDocuments}
    /\ structureTree = buildHierarchy(parsedScore)
    /\ analysis = Null
    /\ chunkedAnalysis = Null
    /\ storeTree \in {importStructure(Null, StructureFile(structureTree, confidence)) :
                         confidence \in FileConfidences}
    /\ storeShared = FALSE
    /\ exportedStructure = Null
    /\ exportedFrom = Null
    /\ storeOp = [name |-> "importStructure"]
    /\ editCount = 0
    /\ session = NewSession(1)
    /\ sessionCount = 1
    /\ exportedSession = Null
    /\ sessionAtExport = Null
    /\ sessOp = [name |-> "constructor"]
    /\ exportedFile = Null
    /\ symbolicChroma = <<>> /\ acousticChroma = <<>> /\ alignOptions = Null
    /\ alignmentResult = Null /\ dtwMeasureToTime = <<>> /\ dtwTimeToMeasure = <<>>
    /\ dtwOp = "idle" /\ adjustCount = 0
    /\ examples = <<>> /\ exampleCount = 0 /\ featureWeights = Null /\ now = 0
    /\ prefOp = "idle" /\ prefQuery = Null /\ prefReturned = Null

EditingNext ==
    \/ UpdateNodeBoundaries
    \/ UpdateNodeType
    \/ UpdateNodeMaterial
    \/ AnalyzerUpdateNodeBoundaries
    \/ ChangeNodeType

SpecEditing == EditingInit /\ [][EditingNext]_vars

\* the last call was one of the editing methods that touch the confidence, and
\* it found its node
ConfidenceEdited ==
    /\ storeOp.name \in {"updateNodeBoundaries", "updateNodeType",
                         "analyzer.updateNodeBoundaries", "analyzer.changeNodeType"}
    /\ storeOp.found

\* C24: no editing operation raises a node's confidence: after
\* updateNodeBoundaries, updateNodeType or changeNodeType the confidence of the
\* edited node is at most what it was before the call
C24_EditsNeverRaise ==
    ConfidenceEdited
        => RLe(EditedNodes[findNode(EditedNodes, storeOp.nodeId)].confidence, storeOp.before)

\* C25: a node's visualStyle is the style of its confidence, after
\* buildHierarchy and after every editing operation, in the tree of the
\* analyzer and in the tree of the store
C25_StyleOfConfidence ==
    /\ \A p \in 1..Len(structureTree) :
           structureTree[p].visualStyle = getConfidenceVisualStyle(structureTree[p].confidence)
    /\ storeTree # Null
           => \A p \in 1..Len(storeTree.nodes) :
                  storeTree.nodes[p].visualStyle
                      = getConfidenceVisualStyle(storeTree.nodes[p].confidence)

\* the ranges of two nodes have a measure in common
Overlap(a, b) == a.startMeasure <= b.endMeasure /\ b.startMeasure <= a.endMeasure

\* node p of the tree starts no later than it ends, lies within its parent,
\* contains its children and shares no measure with a sibling
ConsistentNode(nodes, p) ==
    LET node == nodes[p]
    IN  /\ node.startMeasure <= node.endMeasure
        /\ node.parent # 0
               => /\ nodes[node.parent].startMeasure <= node.startMeasure
                  /\ node.endMeasure <= nodes[node.parent].endMeasure
                  /\ \A k \in 1..Len(nodes[node.parent].children) :
                         nodes[node.parent].children[k] # p
                             => ~Overlap(node, nodes[nodes[node.parent].children[k]])
        /\ \A k \in 1..Len(node.children) :
               /\ node.startMeasure <= nodes[node.children[k]].startMeasure
               /\ nodes[node.children[k]].endMeasure <= node.endMeasure

\* C26: after a call of updateNodeBoundaries the edited node still starts no
\* later than it ends, still lies within its parent's range, still contains
\* the ranges of its children and does not overlap its siblings
C26_EditKeepsConsistency ==
    (/\ storeOp.name \in {"updateNodeBoundaries", "analyzer.updateNodeBoundaries"}
     /\ storeOp.found)
        => ConsistentNode(EditedNodes, findNode(EditedNodes, storeOp.nodeId))

\* the periods of the section of the given name, none when the form has no
\* such section
SectionPeriods(form, name) ==
    IF "sections" \notin DOMAIN form THEN <<>>
    ELSE Flatten([i \in 1..Len(form.sections) |->
                     IF form.sections[i].name = name THEN form.sections[i].periods ELSE <<>>])

\* C27: whenever the form classifier reports sonata form, the periods of the
\* Recapitulation section include a period whose similarity to the first
\* period is greater than 0.5
C27_RecapitulationRecalls ==
    (analysis.formAnalysis # Null /\ analysis.formAnalysis.formType = "sonata")
        => \E i \in 1..Len(SectionPeriods(analysis.formAnalysis, "Recapitulation")) :
               RLt(Rat(5, 10),
                   calculatePeriodSimilarity(SectionPeriods(analysis.formAnalysis, "Recapitulation")[i],
                                             analysis.periods[1]))

\* the step from one cell of a path to the next
PathStep(path, p) == <<path[p + 1][1] - path[p][1], path[p + 1][2] - path[p][2]>>

\* C28: for two non-empty chroma sequences of lengths n and m the backtracking
\* ends, and the path align returns starts at (0,0), ends at (n-1,m-1) and
\* advances at every step by (1,0), (0,1) or (1,1), in at most n+m-1 cells
C28_MonotonePath ==
    (alignmentResult # Null /\ Len(symbolicChroma) > 0 /\ Len(acousticChroma) > 0)
        => LET path == alignmentResult.path
           IN  /\ Len(path) \in 1..(Len(symbolicChroma) + Len(acousticChroma) - 1)
               /\ path[1] = <<0, 0>>
               /\ path[Len(path)] = <<Len(symbolicChroma) - 1, Len(acousticChroma) - 1>>
               /\ \A p \in 1..(Len(path) - 1) :
                      PathStep(path, p) \in {<<1, 0>>, <<0, 1>>, <<1, 1>>}

\* an alignment of sequences of different lengths whose path takes a diagonal
\* step and a step in the first sequence alone
C28_Witness ==
    /\ alignmentResult # Null
    /\ Len(symbolicChroma) = MaxFrames
    /\ Len(acousticChroma) = MaxFrames - 1
    /\ \E p, q \in 1..(Len(alignmentResult.path) - 1) :
           /\ PathStep(alignmentResult.path, p) = <<1, 1>>
           /\ PathStep(alignmentResult.path, q) = <<1, 0>>

\* ---------------------------------------------------------------------------
\* detectPeriods on its own, applied to the phrases of pieces whose phrases
\* are equally long and end each on a cadence (unnamed/part_005)

MaxPhrases == 5

PhraseMeasures == 4

\* the cadences a phrase ends on, a weak one and two strong ones of which the
\* second may close a section, and the melodies it is played to
PhraseCadences == {"half", "plagal", "perfect_authentic"}

PhraseMelodies == {"scale", "leaps"}

\* the notes of phrase k (from 0), one to the measure
PhraseNotes(melody, k) ==
    [i \in 1..PhraseMeasures |->
        LET note == MelodyNote(melody, i)
        IN  [pitch |-> [name |-> note.name, octave |-> note.octave], duration |-> note.duration,
             measureNumber |-> k * PhraseMeasures + i, beat |-> 0]]

PhraseCadence(type, k) ==
    [measureNumber |-> (k + 1) * PhraseMeasures, beat |-> 0, type |-> type,
     strength |-> IF type = "half" THEN "weak" ELSE "strong",
     confidence |-> IF type = "perfect_authentic" THEN Rat(95, 100) ELSE Rat(8, 10)]

\* the phrases as detectPhrases hands them on, their materials compared
PhraseList(kinds) ==
    analyzePhraseMaterials(
        [i \in 1..Len(kinds) |->
            Phrase(PhraseNotes(kinds[i][2], i - 1), <<>>, i - 1, (i - 1) * PhraseMeasures + 1,
                   i * PhraseMeasures, PhraseCadence(kinds[i][1], i - 1), FALSE)],
        1, <<>>)

RECURSIVE PhraseKinds(_)
PhraseKinds(n) ==
    IF n = 0 THEN {<<>>}
    ELSE LET shorter == PhraseKinds(n - 1)
         IN  shorter \cup {Append(ks, k) : ks \in {l \in shorter : Len(l) = n - 1},
                                           k \in PhraseCadences \X PhraseMelodies}

\* the phrases are there, the periods are not yet
PeriodsInit ==
    /\ analysis \in {[phrases |-> PhraseList(kinds), call |-> "detectPhrases", periods |-> Null] :
                         kinds \in PhraseKinds(MaxPhrases)}
    /\ parsedScore = Null
    /\ chunkedAnalysis = Null
    /\ structureTree = <<>>
    /\ symbolicChroma = <<>> /\ acousticChroma = <<>> /\ alignOptions = Null
    /\ alignmentResult = Null /\ dtwMeasureToTime = <<>> /\ dtwTimeToMeasure = <<>>
    /\ dtwOp = "idle" /\ adjustCount = 0
    /\ examples = <<>> /\ exampleCount = 0 /\ featureWeights = Null /\ now = 0
    /\ prefOp = "idle" /\ prefQuery = Null /\ prefReturned = Null
    /\ storeTree = Null /\ storeShared = FALSE /\ exportedStructure = Null /\ exportedFrom = Null
    /\ storeOp = Null /\ editCount = 0
    /\ session = Null /\ sessionCount = 0 /\ exportedSession = Null /\ sessionAtExport = Null
    /\ sessOp = Null /\ exportedFile = Null

\* a call of detectPeriods on the phrases
DetectPeriods ==
    /\ analysis.call = "detectPhrases"
    /\ analysis' = [phrases |-> analysis.phrases, call |-> "detectPeriods",
                    periods |-> detectPeriods(analysis.phrases)]
    /\ UNCHANGED <<parsedScore, chunkedAnalysis, structureTree, dtwVars, prefVars, storeVars>>

SpecPeriods == PeriodsInit /\ [][DetectPeriods]_vars

\* C29: the periods detectPeriods returns, taken one after the other, give
\* back the phrase list, each phrase once and in its place, and every period
\* holds between one and four phrases
C29_PeriodsPartition ==
    analysis.call = "detectPeriods"
        => /\ Flatten([i \in 1..Len(analysis.periods) |-> analysis.periods[i].phrases])
                  = analysis.phrases
           /\ \A i \in 1..Len(analysis.periods) :
                  /\ Len(analysis.periods[i].phrases) \in 1..4
                  /\ analysis.periods[i].phraseCount = Len(analysis.periods[i].phrases)

\* the most phrases, divided into a period of four, cut off by the limit
\* alone, and a period of a single phrase before a new section
C29_Witness ==
    /\ analysis.call = "detectPeriods"
    /\ Len(analysis.phrases) = MaxPhrases
    /\ \E i, j \in 1..Len(analysis.periods) :
           /\ analysis.periods[i].phraseCount = 4
           /\ analysis.periods[i].closure = "open"
           /\ analysis.periods[j].phraseCount = 1
           /\ j < Len(analysis.periods)
           /\ isNewSection(analysis.periods[j].phrases[1], analysis.periods[j + 1].phrases[1])

\* C30: the schemes one recommend call returns are pairwise distinct under the
\* key of deduplicateSchemes (shape types, colours, animation), the schemes
\* of the random top-up included
C30_SchemesDistinct ==
    prefOp = "recommend"
        => \A i, j \in 1..Len(prefReturned) :
               i < j => SchemeKey(prefReturned[i].scheme) # SchemeKey(prefReturned[j].scheme)

====
